---- MODULE Spec2Model ----
(***************************************************************************)
(* A model of the 2D overlay widgets of dipy.viz.gui_2d and of the event   *)
(* router that drives them.                                                *)
(*                                                                         *)
(* LineSlider2D / DiskSlider2D: the track, the handle and the percentage   *)
(* label.  CustomInteractorStyle (doc/examples/scifi_ui_follower.py): the  *)
(* registration of observers and the dispatch of pointer events.           *)
(* TextBox2D: the text buffer, the caret and the displayed window, driven  *)
(* by edit_mode and handle_character, which dispatches to add_character,   *)
(* remove_character, move_left and move_right.                             *)
(* Button2D: the icon cycle driven by next_icon_name / next_icon.          *)
(* Panel2D: the background rectangle and the placement of the elements    *)
(* added to it.                                                            *)
(*                                                                         *)
(* A Python string is a sequence of one-character strings, so that len(),  *)
(* slicing, lower() and concatenation are computed, not assumed.  Every    *)
(* method is an operator from the object's fields (a record) to the fields *)
(* after the call; an action applies one method to the state.              *)
(***************************************************************************)
EXTENDS Integers, Sequences, FiniteSets, TLC

VARIABLES
    text,             \* TextBox2D.text
    caret_pos,        \* TextBox2D.caret_pos
    window_left,      \* TextBox2D.window_left
    window_right,     \* TextBox2D.window_right
    init,             \* TextBox2D.init (TRUE until the first edit_mode)
    width,            \* TextBox2D.width
    height,           \* TextBox2D.height
    message,          \* the string last pushed to TextBox2D.actor
    tb_call,          \* the last TextBox2D call: [op, arg, ret]
    icon_names,       \* Button2D.icon_names
    current_icon_id,  \* Button2D.current_icon_id
    current_icon_name,\* Button2D.current_icon_name
    mapper_input,     \* the icon resource bound to the button actor's mapper
    actor_position,   \* the button actor's position
    actor,            \* Button2D.actor: which vtk actor and which mapper
    bt_call,          \* the last Button2D call
    line_slider,      \* the LineSlider2D: [slider_line, slider_disk, text]
    ls_args,          \* the arguments the LineSlider2D was built with
    ls_call,          \* the last LineSlider2D call: [op, arg]
    disk_slider,      \* the DiskSlider2D and its three sub-widgets
    ds_args,          \* the arguments the DiskSlider2D was built with
    ds_call,          \* the last DiskSlider2D call: [op, arg, ret]
    observers,        \* the observers of the interactors and of the style
    chosen_element,   \* CustomInteractorStyle.chosen_element
    rt_event,         \* the last router call, or event sent to an interactor
    forwarded,        \* the props InvokeEvent was called on for that event
    camera,           \* the trackball calls made for that event
    camera_down,      \* the buttons the trackball style was last told are down
    router_down,      \* the buttons whose last event handled by the router is a press
    panel,            \* the Panel2D: [center, size, panel, lower_limits, ui_list]
    elements,         \* the widgets a panel can hold, by name
    pn_call,          \* the last call on the panel or on one of its elements
    renderer          \* the actors ren.add was called with, in order

tbVars == <<text, caret_pos, window_left, window_right, init, width, height,
            message, tb_call>>
btVars == <<icon_names, current_icon_id, current_icon_name, mapper_input,
            actor_position, actor, bt_call>>
lsVars == <<line_slider, ls_args, ls_call>>
dsVars == <<disk_slider, ds_args, ds_call>>
rtVars == <<observers, chosen_element, rt_event, forwarded, camera,
            camera_down, router_down>>
pnVars == <<panel, elements, pn_call, renderer>>
vars == <<tbVars, btVars, lsVars, dsVars, rtVars, pnVars>>

\* what a call on one widget leaves alone: the other widgets
exceptTB == <<btVars, lsVars, dsVars, rtVars, pnVars>>
exceptBT == <<tbVars, lsVars, dsVars, rtVars, pnVars>>
exceptLS == <<tbVars, btVars, dsVars, rtVars, pnVars>>
exceptDS == <<tbVars, btVars, lsVars, rtVars, pnVars>>
exceptRT == <<tbVars, btVars, lsVars, dsVars, pnVars>>
exceptPN == <<tbVars, btVars, lsVars, dsVars, rtVars>>

----------------------------------------------------------------------------
(* Bounds of the model. *)

\* the longest text buffer the model lets the user build
MaxLen == 4
\* the largest number of icons of a button
MaxIcons == 3
\* the largest number of elements added to a panel
MaxElements == 2

----------------------------------------------------------------------------
(* Python strings. *)

Min(a, b) == IF a < b THEN a ELSE b
Max(a, b) == IF a > b THEN a ELSE b

\* a Python slice index: negative counts from the end, then clamped to [0, n]
PyIndex(i, n) == IF i < 0 THEN Max(i + n, 0) ELSE Min(i, n)

\* s[lo:hi]
PySlice(s, lo, hi) ==
    LET l == PyIndex(lo, Len(s))
        h == PyIndex(hi, Len(s))
    IN  IF l >= h THEN <<>> ELSE SubSeq(s, l + 1, h)

\* s[:hi]
PyPrefix(s, hi) == PySlice(s, 0, hi)

\* s[lo:]
PySuffix(s, lo) == PySlice(s, lo, Len(s))

UpperLetters == <<"A","B","C","D","E","F","G","H","I","J","K","L","M",
                  "N","O","P","Q","R","S","T","U","V","W","X","Y","Z">>
LowerLetters == <<"a","b","c","d","e","f","g","h","i","j","k","l","m",
                  "n","o","p","q","r","s","t","u","v","w","x","y","z">>

\* the lower-case letter of every upper-case letter
ToLower ==
    [c \in {UpperLetters[i] : i \in 1..Len(UpperLetters)} |->
        LowerLetters[CHOOSE i \in 1..Len(UpperLetters) : UpperLetters[i] = c]]

LowerChar(c) == IF c \in DOMAIN ToLower THEN ToLower[c] ELSE c

\* str.lower()
lower(s) == [i \in 1..Len(s) |-> LowerChar(s[i])]

\* str.rstrip("\n")
RECURSIVE rstrip_newline(_)
rstrip_newline(s) ==
    IF Len(s) > 0 /\ s[Len(s)] = "\n"
    THEN rstrip_newline(SubSeq(s, 1, Len(s) - 1))
    ELSE s

STR_space == <<"s","p","a","c","e">>
STR_return == <<"r","e","t","u","r","n">>
STR_backspace == <<"b","a","c","k","s","p","a","c","e">>
STR_left == <<"l","e","f","t">>
STR_right == <<"r","i","g","h","t">>
STR_caret == <<"_">>
STR_EnterText == <<"E","n","t","e","r"," ","T","e","x","t">>

----------------------------------------------------------------------------
(* TextBox2D.  A box is the record of the object's fields. *)

Box == [text |-> text, caret_pos |-> caret_pos, window_left |-> window_left,
        window_right |-> window_right, init |-> init, width |-> width,
        height |-> height, message |-> message]

TextBox2D_init(w, h, t) ==
    [text |-> t, caret_pos |-> 0, window_left |-> 0, window_right |-> 0,
     init |-> TRUE, width |-> w, height |-> h, message |-> t]

RECURSIVE width_set_text_loop(_, _, _, _)
width_set_text_loop(w, t, i, acc) ==
    IF i >= Len(t) THEN acc
    ELSE LET a == Append(acc, t[i + 1])
         IN  width_set_text_loop(w, t, i + 1,
                 IF (i + 1) % w = 0 THEN Append(a, "\n") ELSE a)

width_set_text(s, t) == rstrip_newline(width_set_text_loop(s.width, t, 0, <<>>))

move_caret_right(s) ==
    LET c == s.caret_pos + 1
    IN  [s EXCEPT !.caret_pos = IF c > Len(s.text) THEN Len(s.text) ELSE c]

move_caret_left(s) ==
    LET c == s.caret_pos - 1
    IN  [s EXCEPT !.caret_pos = IF c < 0 THEN 0 ELSE c]

right_move_right(s) ==
    IF s.window_right <= Len(s.text)
    THEN [s EXCEPT !.window_right = s.window_right + 1]
    ELSE s

right_move_left(s) ==
    IF s.window_right > 0
    THEN [s EXCEPT !.window_right = s.window_right - 1]
    ELSE s

\* left_move_right that leaves the left edge where it is
left_move_right_stuck(s) == s
left_move_right(s) ==
    IF s.window_left <= Len(s.text)
    THEN [s EXCEPT !.window_left = s.window_left + 1]
    ELSE s

\* left_move_left that leaves the left edge where it is
left_move_left_stuck(s) == s
left_move_left(s) ==
    IF s.window_left > 0
    THEN [s EXCEPT !.window_left = s.window_left - 1]
    ELSE s

\* window_full comparing with the capacity instead of capacity - 1
window_full_offbyone(s) == s.window_right - s.window_left = s.height * s.width

\* the test "self.window_right - self.window_left == self.height * self.width - 1"
window_full(s) == s.window_right - s.window_left = s.height * s.width - 1

\* the early return of add_character, comparing "space" case-sensitively
add_character_rejects_cased(character) ==
    Len(character) > 1 /\ character # STR_space

\* the early return of add_character
add_character_rejects(character) ==
    Len(character) > 1 /\ lower(character) # STR_space

\* add_character that never slides the left edge of a full window
add_character_noslide(s, character) ==
    IF add_character_rejects(character) THEN s
    ELSE LET ch == IF lower(character) = STR_space THEN <<" ">> ELSE character
             s1 == [s EXCEPT !.text = PyPrefix(s.text, s.caret_pos) \o ch
                                      \o PySuffix(s.text, s.caret_pos)]
             s2 == move_caret_right(s1)
         IN  right_move_right(s2)

add_character(s, character) ==
    IF add_character_rejects(character) THEN s
    ELSE LET ch == IF lower(character) = STR_space THEN <<" ">> ELSE character
             s1 == [s EXCEPT !.text = PyPrefix(s.text, s.caret_pos) \o ch
                                      \o PySuffix(s.text, s.caret_pos)]
             s2 == move_caret_right(s1)
             s3 == IF window_full(s2) THEN left_move_right(s2) ELSE s2
         IN  right_move_right(s3)

\* remove_character that never pulls the right edge back over a short text
remove_character_keepright(s) ==
    IF s.caret_pos = 0 THEN s
    ELSE LET s1 == [s EXCEPT !.text = PyPrefix(s.text, s.caret_pos - 1)
                                      \o PySuffix(s.text, s.caret_pos)]
             s3 == move_caret_left(s1)
         IN  IF window_full(s3) /\ s3.window_left > 0
             THEN right_move_left(left_move_left(s3))
             ELSE s3
\* remove_character testing "len(text) <= capacity" instead of "<"
remove_character_le(s) ==
    IF s.caret_pos = 0 THEN s
    ELSE LET s1 == [s EXCEPT !.text = PyPrefix(s.text, s.caret_pos - 1)
                                      \o PySuffix(s.text, s.caret_pos)]
             s2 == move_caret_left(s1)
             s3 == IF Len(s2.text) <= s2.height * s2.width - 1
                   THEN right_move_left(s2) ELSE s2
         IN  IF window_full(s3) /\ s3.window_left > 0
             THEN right_move_left(left_move_left(s3))
             ELSE s3

\* remove_character deleting the character after the caret
remove_character_forward(s) ==
    IF s.caret_pos = 0 THEN s
    ELSE LET s1 == [s EXCEPT !.text = PyPrefix(s.text, s.caret_pos)
                                      \o PySuffix(s.text, s.caret_pos + 1)]
             s2 == move_caret_left(s1)
             s3 == IF Len(s2.text) < s2.height * s2.width - 1
                   THEN right_move_left(s2) ELSE s2
         IN  IF window_full(s3) /\ s3.window_left > 0
             THEN right_move_left(left_move_left(s3))
             ELSE s3

remove_character(s) ==
    IF s.caret_pos = 0 THEN s
    ELSE LET s1 == [s EXCEPT !.text = PyPrefix(s.text, s.caret_pos - 1)
                                      \o PySuffix(s.text, s.caret_pos)]
             s2 == move_caret_left(s1)
             s3 == IF Len(s2.text) < s2.height * s2.width - 1
                   THEN right_move_left(s2) ELSE s2
         IN  IF window_full(s3) /\ s3.window_left > 0
             THEN right_move_left(left_move_left(s3))
             ELSE s3

\* move_left that leaves the window where it is
move_left_noscroll(s) == move_caret_left(s)

move_left(s) ==
    LET s1 == move_caret_left(s)
    IN  IF s1.caret_pos = s1.window_left - 1 /\ window_full(s1)
        THEN right_move_left(left_move_left(s1))
        ELSE s1

\* move_right that leaves the window where it is
move_right_noscroll(s) == move_caret_right(s)
move_right(s) ==
    LET s1 == move_caret_right(s)
    IN  IF s1.caret_pos = s1.window_right + 1 /\ window_full(s1)
        THEN right_move_right(left_move_right(s1))
        ELSE s1

\* showable_text putting the caret marker after the last character
showable_text_caret_last(s, show_caret) ==
    LET ret_text == IF show_caret THEN s.text \o STR_caret ELSE s.text
    IN  PySlice(ret_text, s.window_left, s.window_right + 1)
showable_text(s, show_caret) ==
    LET ret_text == IF show_caret
                    THEN PyPrefix(s.text, s.caret_pos) \o STR_caret
                         \o PySuffix(s.text, s.caret_pos)
                    ELSE s.text
    IN  PySlice(ret_text, s.window_left, s.window_right + 1)

render_text(s, show_caret) ==
    LET t == showable_text(s, show_caret)
        shown == IF t = <<>> THEN STR_EnterText ELSE t
    IN  [s EXCEPT !.message = width_set_text(s, shown)]

\* edit_mode clearing the text on every call
edit_mode_always(s) ==
    render_text([s EXCEPT !.text = <<>>, !.init = FALSE, !.caret_pos = 0], TRUE)

edit_mode(s) ==
    LET s1 == IF s.init
              THEN [s EXCEPT !.text = <<>>, !.init = FALSE, !.caret_pos = 0]
              ELSE s
    IN  render_text(s1, TRUE)

\* handle_character comparing "return" case-sensitively
handle_character_cased(s, character) ==
    IF character = STR_return
    THEN [box |-> render_text(s, FALSE), ret |-> TRUE]
    ELSE LET s1 == IF lower(character) = STR_backspace THEN remove_character(s)
                   ELSE IF lower(character) = STR_left THEN move_left(s)
                   ELSE IF lower(character) = STR_right THEN move_right(s)
                   ELSE add_character(s, character)
         IN  [box |-> render_text(s1, TRUE), ret |-> FALSE]

\* handle_character: the fields after the call and the value returned
handle_character(s, character) ==
    IF lower(character) = STR_return
    THEN [box |-> render_text(s, FALSE), ret |-> TRUE]
    ELSE LET s1 == IF lower(character) = STR_backspace THEN remove_character(s)
                   ELSE IF lower(character) = STR_left THEN move_left(s)
                   ELSE IF lower(character) = STR_right THEN move_right(s)
                   ELSE add_character(s, character)
         IN  [box |-> render_text(s1, TRUE), ret |-> FALSE]

----------------------------------------------------------------------------
(* The inputs of the text box. *)

\* (width, height) of the boxes the model builds
Dims == {<<1, 1>>, <<2, 1>>, <<3, 1>>, <<2, 2>>}

\* the placeholder texts a box is built with ("Enter Text" is the default)
Placeholders == {STR_EnterText, <<>>, <<"h", "i">>}

\* key symbols of one character
CharKeys == {<<"a">>}

SpaceKeys == {STR_space, <<"S","p","a","c","e">>}
ReturnKeys == {STR_return, <<"R","e","t","u","r","n">>}
BackspaceKeys == {STR_backspace, <<"B","a","c","k","S","p","a","c","e">>}
LeftKeys == {STR_left, <<"L","e","f","t">>}
RightKeys == {STR_right, <<"R","i","g","h","t">>}
\* key symbols of several characters that name no editing key
OtherKeys == {<<"U","p">>, <<"S","h","i","f","t","_","L">>}

Keys == CharKeys \cup SpaceKeys \cup ReturnKeys \cup BackspaceKeys
        \cup LeftKeys \cup RightKeys \cup OtherKeys

\* the tokens add_character splices into the text
AcceptedKeys == {k \in Keys : ~add_character_rejects(k)}

SetBox(s) ==
    /\ text' = s.text
    /\ caret_pos' = s.caret_pos
    /\ window_left' = s.window_left
    /\ window_right' = s.window_right
    /\ init' = s.init
    /\ width' = s.width
    /\ height' = s.height
    /\ message' = s.message

\* the text buffer stays within the bound of the model
WithinBound(s) == Len(s.text) <= MaxLen

InitTextBox ==
    \E d \in Dims, t \in Placeholders :
        LET s == TextBox2D_init(d[1], d[2], t)
        IN  /\ text = s.text
            /\ caret_pos = s.caret_pos
            /\ window_left = s.window_left
            /\ window_right = s.window_right
            /\ init = s.init
            /\ width = s.width
            /\ height = s.height
            /\ message = s.message
            /\ tb_call = [op |-> "__init__", arg |-> t, ret |-> "None"]

\* the default box, for the specifications that leave the text box alone
IdleTextBox ==
    LET s == TextBox2D_init(2, 1, STR_EnterText)
    IN  /\ text = s.text
        /\ caret_pos = s.caret_pos
        /\ window_left = s.window_left
        /\ window_right = s.window_right
        /\ init = s.init
        /\ width = s.width
        /\ height = s.height
        /\ message = s.message
        /\ tb_call = [op |-> "__init__", arg |-> STR_EnterText, ret |-> "None"]

EditMode ==
    /\ SetBox(edit_mode(Box))
    /\ UNCHANGED exceptTB
    /\ tb_call' = [op |-> "edit_mode", arg |-> <<>>, ret |-> "None"]

\* A key press delivered to the box.  Keys reach the box once it has entered
\* edit mode; add_character, remove_character, move_left and move_right are
\* called through the dispatch of handle_character.
HandleCharacter ==
    \E k \in Keys :
        LET r == handle_character(Box, k)
        IN  /\ ~init
            /\ WithinBound(r.box)
            /\ SetBox(r.box)
            /\ UNCHANGED exceptTB
            /\ tb_call' = [op |-> "handle_character", arg |-> k,
                           ret |-> IF r.ret THEN "True" ELSE "False"]

NextTextBox ==
    \/ EditMode
    \/ HandleCharacter


----------------------------------------------------------------------------
(* Typing a word into a fresh box, one key at a time. *)

STR_HELLOWORLD == <<"H","E","L","L","O","W","O","R","L","D">>

IsPrefix(p, s) == Len(p) <= Len(s) /\ SubSeq(s, 1, Len(p)) = p

\* the letters of the short words typed
ShortChars == {"a", "b"}

\* the letters of the words typed
TypedChars == ShortChars \cup {"H", "E", "L", "O", "W", "R", "D"}

\* a word the typist may be typing: HELLOWORLD, or any short word of a's and b's
IsTypedWord(t) ==
    \/ IsPrefix(t, STR_HELLOWORLD)
    \/ Len(t) <= MaxLen /\ \A i \in 1..Len(t) : t[i] \in ShortChars

TypingDims == Dims \cup {<<5, 2>>}

InitTypingBox ==
    \E d \in TypingDims, t \in Placeholders :
        LET s == TextBox2D_init(d[1], d[2], t)
        IN  /\ text = s.text
            /\ caret_pos = s.caret_pos
            /\ window_left = s.window_left
            /\ window_right = s.window_right
            /\ init = s.init
            /\ width = s.width
            /\ height = s.height
            /\ message = s.message
            /\ tb_call = [op |-> "__init__", arg |-> t, ret |-> "None"]

\* handle_character with the next letter of the word
TypeCharacter ==
    \E c \in TypedChars :
        LET r == handle_character(Box, <<c>>)
        IN  /\ ~init
            /\ IsTypedWord(r.box.text)
            /\ SetBox(r.box)
            /\ UNCHANGED exceptTB
            /\ tb_call' = [op |-> "handle_character", arg |-> <<c>>,
                           ret |-> IF r.ret THEN "True" ELSE "False"]

----------------------------------------------------------------------------
(* Button2D. *)

Button == [icon_names |-> icon_names, current_icon_id |-> current_icon_id,
           current_icon_name |-> current_icon_name,
           mapper_input |-> mapper_input, actor_position |-> actor_position,
           actor |-> actor]

\* seq[i] of a Python list; an index out of range raises IndexError
PyItem(seq, i) ==
    IF 0 <= i /\ i < Len(seq) THEN seq[i + 1] ELSE "IndexError"

\* the names a button's icons are drawn from
IconNames == {"play", "pause", "stop", "next"}

\* build_icons: the resource an icon name is converted to, once
icons(b, name) == [filter_of |-> name]

\* len(self.icons): one entry per key of icon_fnames
len_icons(b) == Len(b.icon_names)

\* build_actor: a new mapper, bound to the icon, and a new actor on it; a vtk
\* object is the number of the build_actor call that made it
build_actor(b, icon) ==
    [ mapper_input |-> icon,
      actor_position |-> <<0, 0>>,
      actor |-> [id |-> b.actor.id + 1, mapper |-> b.actor.mapper + 1] ]

\* keys: the keys of icon_fnames in the order of the dictionary
Button2D_init(keys) ==
    LET self == [icon_names |-> keys, current_icon_id |-> 0,
                 current_icon_name |-> PyItem(keys, 0),
                 actor |-> [id |-> 0, mapper |-> 0]]
        built == build_actor(self, icons(self, self.current_icon_name))
    IN  [icon_names |-> keys, current_icon_id |-> 0,
         current_icon_name |-> PyItem(keys, 0),
         mapper_input |-> built.mapper_input,
         actor_position |-> built.actor_position,
         actor |-> built.actor]

set_icon(b, icon) == [b EXCEPT !.mapper_input = icon]

\* next_icon_name without the wrap to 0
next_icon_name_nowrap(b) ==
    LET i == b.current_icon_id + 1
    IN  [b EXCEPT !.current_icon_id = i,
                  !.current_icon_name = PyItem(b.icon_names, i)]

\* next_icon_name that does not refresh current_icon_name
next_icon_name_stale(b) ==
    LET i == b.current_icon_id + 1
        j == IF i = len_icons(b) THEN 0 ELSE i
    IN  [b EXCEPT !.current_icon_id = j]

next_icon_name(b) ==
    LET i == b.current_icon_id + 1
        j == IF i = len_icons(b) THEN 0 ELSE i
    IN  [b EXCEPT !.current_icon_id = j,
                  !.current_icon_name = PyItem(b.icon_names, j)]

\* next_icon that builds a new actor for the icon
next_icon_rebuild(b) ==
    LET b1 == next_icon_name(b)
        built == build_actor(b1, icons(b1, b1.current_icon_name))
    IN  [b1 EXCEPT !.mapper_input = built.mapper_input,
                   !.actor_position = built.actor_position,
                   !.actor = [id |-> (@.id % 2) + 1,
                              mapper |-> (@.mapper % 2) + 1]]

next_icon(b) ==
    LET b1 == next_icon_name(b)
    IN  set_icon(b1, icons(b1, b1.current_icon_name))

Button2D_set_center(b, position) == [b EXCEPT !.actor_position = position]

\* the positions a button is moved to
Positions == {<<0, 0>>, <<100, 50>>}

IsInjective(seq) ==
    \A i, j \in 1..Len(seq) : seq[i] = seq[j] => i = j

\* the key orders of the icon_fnames dictionaries the model builds
IconKeyOrders ==
    UNION {{q \in [1..n -> IconNames] : IsInjective(q)} : n \in 1..MaxIcons}

SetButton(b) ==
    /\ icon_names' = b.icon_names
    /\ current_icon_id' = b.current_icon_id
    /\ current_icon_name' = b.current_icon_name
    /\ mapper_input' = b.mapper_input
    /\ actor_position' = b.actor_position
    /\ actor' = b.actor

InitButton ==
    \E keys \in IconKeyOrders :
        LET b == Button2D_init(keys)
        IN  /\ icon_names = b.icon_names
            /\ current_icon_id = b.current_icon_id
            /\ current_icon_name = b.current_icon_name
            /\ mapper_input = b.mapper_input
            /\ actor_position = b.actor_position
            /\ actor = b.actor
            /\ bt_call = "__init__"

\* the default button, for the specifications that leave the button alone
IdleButton ==
    LET b == Button2D_init(<<"play">>)
    IN  /\ icon_names = b.icon_names
        /\ current_icon_id = b.current_icon_id
        /\ current_icon_name = b.current_icon_name
        /\ mapper_input = b.mapper_input
        /\ actor_position = b.actor_position
        /\ actor = b.actor
        /\ bt_call = "__init__"

NextIconName ==
    /\ SetButton(next_icon_name(Button))
    /\ bt_call' = "next_icon_name"
    /\ UNCHANGED exceptBT

NextIcon ==
    /\ SetButton(next_icon(Button))
    /\ bt_call' = "next_icon"
    /\ UNCHANGED exceptBT

ButtonSetCenter ==
    \E p \in Positions :
        /\ SetButton(Button2D_set_center(Button, p))
        /\ bt_call' = "set_center"
        /\ UNCHANGED exceptBT

----------------------------------------------------------------------------
(* Numbers.  Screen coordinates are integers; "/" is Python 3's true       *)
(* division, so a quotient is kept exactly, as a fraction <<n, d>> in      *)
(* lowest terms with d > 0.                                                *)

Abs(n) == IF n < 0 THEN -n ELSE n

RECURSIVE GCD(_, _)
GCD(a, b) == IF b = 0 THEN a ELSE GCD(b, a % b)

\* the fraction n/d (d # 0) in lowest terms
Frac(n, d) ==
    LET g == GCD(Abs(n), Abs(d))
        sgn == IF d < 0 THEN -1 ELSE 1
    IN <<(sgn * n) \div g, (sgn * d) \div g>>

\* the number an int argument denotes
R(n) == <<n, 1>>

RAdd(a, b) == Frac(a[1] * b[2] + b[1] * a[2], a[2] * b[2])
RSub(a, b) == Frac(a[1] * b[2] - b[1] * a[2], a[2] * b[2])
RMul(a, b) == Frac(a[1] * b[1], a[2] * b[2])
\* a / b, for b # 0
RDiv(a, b) == Frac(a[1] * b[2], a[2] * b[1])
RLt(a, b) == a[1] * b[2] < b[1] * a[2]
RLe(a, b) == a[1] * b[2] <= b[1] * a[2]

\* a point given by its int coordinates
Pt(x, y) == <<R(x), R(y)>>

----------------------------------------------------------------------------
(* Rectangle2D and LineSlider2D: a track (LineSlider2DBase), a handle      *)
(* (LineSlider2DDisk) and a percentage label (LineSlider2DText).  Of an    *)
(* actor the model keeps its position, of the label also its message.      *)

\* Rectangle2D.build_actor / set_center: the actor's position for a center
Rectangle2D_position(size, center) ==
    <<RSub(center[1], RDiv(size[1], R(2))),
      RSub(center[2], RDiv(size[2], R(2)))>>

\* LineSlider2DBase.__init__
LineSlider2DBase_init(line_width, center, length) ==
    [ actor_position |-> Rectangle2D_position(<<length, line_width>>, center),
      length |-> length,
      line_width |-> line_width ]

\* LineSlider2DBase.set_center
LineSlider2DBase_set_center(b, position) ==
    [b EXCEPT !.actor_position =
        <<RSub(position[1], RDiv(b.length, R(2))),
          RSub(position[2], RDiv(b.line_width, R(2)))>>]

\* LineSlider2DDisk.__init__
LineSlider2DDisk_init(center, length) ==
    [ center |-> center,
      length |-> length,
      actor_position |-> <<center[1], center[2]>> ]

\* set_position that forgets the right end of the track
LineSlider2DDisk_set_position_noright(d, position) ==
    LET lo == RSub(d.center[1], RDiv(d.length, R(2)))
        x0 == position[1]
        x1 == IF RLt(x0, lo) THEN lo ELSE x0
    IN [d EXCEPT !.actor_position = <<x1, d.center[2]>>]

\* LineSlider2DDisk.set_position
LineSlider2DDisk_set_position(d, position) ==
    LET lo == RSub(d.center[1], RDiv(d.length, R(2)))
        hi == RAdd(d.center[1], RDiv(d.length, R(2)))
        x0 == position[1]
        x1 == IF RLt(x0, lo) THEN lo ELSE x0
        x2 == IF RLt(hi, x1) THEN hi ELSE x1
    IN [d EXCEPT !.actor_position = <<x2, d.center[2]>>]

\* LineSlider2DDisk.set_center
LineSlider2DDisk_set_center(d, position) ==
    LineSlider2DDisk_set_position([d EXCEPT !.center = position], position)

\* calculate_percentage that does not cap the percentage at 100
LineSlider2DText_calculate_percentage_nocap(t, current_val) ==
    LET p0 == RDiv(RMul(RSub(current_val, t.left_x_position), R(100)),
                   RSub(t.right_x_position, t.left_x_position))
        p1 == IF RLt(p0, R(0)) THEN R(0) ELSE p0
    IN <<p1, "%">>

\* LineSlider2DText.calculate_percentage: str(percentage) + "%", kept as the
\* number and the sign that follows it
LineSlider2DText_calculate_percentage(t, current_val) ==
    LET p0 == RDiv(RMul(RSub(current_val, t.left_x_position), R(100)),
                   RSub(t.right_x_position, t.left_x_position))
        p1 == IF RLt(p0, R(0)) THEN R(0) ELSE p0
        p2 == IF RLt(R(100), p1) THEN R(100) ELSE p1
    IN <<p2, "%">>

\* LineSlider2DText.__init__ with build_actor
LineSlider2DText_init(center, length, current_val) ==
    LET left == RSub(center[1], RDiv(length, R(2)))
        right == RAdd(center[1], RDiv(length, R(2)))
        self == [ left_x_position |-> left,
                  right_x_position |-> right,
                  length |-> length ]
    IN [ left_x_position |-> left,
         right_x_position |-> right,
         length |-> length,
         actor_position |-> <<RSub(left, R(50)), center[2]>>,
         message |-> LineSlider2DText_calculate_percentage(self, current_val) ]

\* LineSlider2DText.set_percentage
LineSlider2DText_set_percentage(t, current_val) ==
    [t EXCEPT !.message = LineSlider2DText_calculate_percentage(t, current_val)]

\* LineSlider2DText.set_center
LineSlider2DText_set_center(t, position) ==
    [t EXCEPT !.actor_position =
        <<RSub(RSub(position[1], RDiv(t.length, R(2))), R(40)),
          RSub(position[2], R(10))>>]

\* LineSlider2D.__init__
LineSlider2D_init(start_point, end_point, line_width, center, length) ==
    [ slider_line |-> LineSlider2DBase_init(line_width, center, length),
      slider_disk |-> LineSlider2DDisk_init(center, length),
      text |-> LineSlider2DText_init(center, length,
                  RAdd(start_point[1],
                       RDiv(RSub(end_point[1], start_point[1]), R(2)))) ]

\* LineSlider2D.set_center
LineSlider2D_set_center(s, position) ==
    [ slider_disk |-> LineSlider2DDisk_set_center(s.slider_disk, position),
      slider_line |-> LineSlider2DBase_set_center(s.slider_line, position),
      text |-> LineSlider2DText_set_center(s.text, position) ]

\* one drag update: the handle follows the pointer and the label is recomputed
\* from the pointer's x
LineSlider2D_drag(s, position) ==
    [s EXCEPT
        !.slider_disk = LineSlider2DDisk_set_position(s.slider_disk, position),
        !.text = LineSlider2DText_set_percentage(s.text, position[1])]

(* The inputs of the line slider. *)

\* the construction arguments: the defaults of LineSlider2D.__init__ and
\* short tracks, of even and of odd length, away from the defaults
LineSliderArgs ==
    { [start_point |-> Pt(350, 20), end_point |-> Pt(550, 20),
       line_width |-> R(5), center |-> Pt(450, 20), length |-> R(200)],
      [start_point |-> Pt(6, 5), end_point |-> Pt(14, 5),
       line_width |-> R(5), center |-> Pt(10, 5), length |-> R(8)],
      [start_point |-> Pt(350, 20), end_point |-> Pt(550, 20),
       line_width |-> R(5), center |-> Pt(10, 5), length |-> R(8)],
      [start_point |-> Pt(6, 5), end_point |-> Pt(14, 5),
       line_width |-> R(4), center |-> Pt(10, 5), length |-> R(3)],
      [start_point |-> Pt(10, 5), end_point |-> Pt(11, 5),
       line_width |-> R(5), center |-> Pt(10, 5), length |-> R(1)] }

\* the pointer positions of a drag and the arguments of set_center
LinePoints ==
    { Pt(0, 0), Pt(5, 5), Pt(6, 9), Pt(8, 5), Pt(10, 5), Pt(11, 7),
      Pt(14, 5), Pt(15, 5), Pt(349, 20), Pt(350, 20), Pt(400, 33),
      Pt(450, 20), Pt(550, 20), Pt(551, 20) }
LineCenters == { Pt(450, 20), Pt(10, 5), Pt(400, 33) }

InitLineSlider ==
    \E a \in LineSliderArgs :
        /\ ls_args = a
        /\ line_slider = LineSlider2D_init(a.start_point, a.end_point,
                                           a.line_width, a.center, a.length)
        /\ ls_call = [op |-> "__init__", arg |-> a.center]

\* the line slider while another widget is exercised: LineSlider2D()
DefaultLineSliderArgs ==
    [start_point |-> Pt(350, 20), end_point |-> Pt(550, 20),
     line_width |-> R(5), center |-> Pt(450, 20), length |-> R(200)]
IdleLineSlider ==
    /\ ls_args = DefaultLineSliderArgs
    /\ line_slider = LineSlider2D_init(ls_args.start_point, ls_args.end_point,
                        ls_args.line_width, ls_args.center, ls_args.length)
    /\ ls_call = [op |-> "__init__", arg |-> ls_args.center]

(* The calls on a line slider. *)

LineDrag ==
    \E p \in LinePoints :
        /\ line_slider' = LineSlider2D_drag(line_slider, p)
        /\ ls_call' = [op |-> "drag", arg |-> p]
        /\ UNCHANGED ls_args
        /\ UNCHANGED exceptLS

LineSetCenter ==
    \E p \in LineCenters :
        /\ line_slider' = LineSlider2D_set_center(line_slider, p)
        /\ ls_call' = [op |-> "set_center", arg |-> p]
        /\ UNCHANGED ls_args
        /\ UNCHANGED exceptLS

----------------------------------------------------------------------------
(* DiskSlider2D: a ring (DiskSlider2DBase), a handle on the ring           *)
(* (DiskSlider2DDisk) and a percentage label (DiskSlider2DText).           *)

\* math.sqrt, on the squares
RECURSIVE sqrt_from(_, _)
sqrt_from(n, s) == IF n * n >= s THEN n ELSE sqrt_from(n + 1, s)
sqrt(s) == sqrt_from(0, s)

\* int(): truncation toward zero
int(q) == IF q[1] >= 0 THEN q[1] \div q[2] ELSE -((-q[1]) \div q[2])

\* str() of an int
DigitChars == <<"0", "1", "2", "3", "4", "5", "6", "7", "8", "9">>
RECURSIVE str_nat(_)
str_nat(n) ==
    IF n < 10 THEN <<DigitChars[n + 1]>>
    ELSE str_nat(n \div 10) \o <<DigitChars[(n % 10) + 1]>>
str(n) == IF n < 0 THEN <<"-">> \o str_nat(-n) ELSE str_nat(n)

\* math.degrees(math.atan2(perpendicular, base)), on the eight directions of
\* the compass and at the origin, where it is a whole number of degrees
OnCompass(perpendicular, base) ==
    \/ perpendicular = 0
    \/ base = 0
    \/ Abs(perpendicular) = Abs(base)
degrees_atan2(perpendicular, base) ==
    CASE perpendicular = 0 /\ base >= 0 -> 0
      [] perpendicular = 0 /\ base < 0 -> 180
      [] base = 0 /\ perpendicular > 0 -> 90
      [] base = 0 /\ perpendicular < 0 -> -90
      [] perpendicular > 0 /\ base > 0 -> 45
      [] perpendicular > 0 /\ base < 0 -> 135
      [] perpendicular < 0 /\ base > 0 -> -45
      [] perpendicular < 0 /\ base < 0 -> -135

\* DiskSlider2DBase.__init__ and DiskSlider2DDisk.__init__
DiskSlider2DBase_init(disk_position) == [actor_position |-> disk_position]
DiskSlider2DDisk_init(disk_position) == [actor_position |-> disk_position]

\* DiskSlider2DBase.set_center
DiskSlider2DBase_set_center(b, position) ==
    [b EXCEPT !.actor_position = position]

\* DiskSlider2DDisk.set_position
DiskSlider2DDisk_set_position(d, position) ==
    [d EXCEPT !.actor_position = position]

\* calculate_percentage that does not pad a one-digit percentage
DiskSlider2DText_calculate_percentage_nopad(current_val) ==
    LET percentage == int(RMul(RDiv(current_val, R(360)), R(100)))
    IN str(percentage) \o <<"%">>

\* DiskSlider2DText.calculate_percentage
DiskSlider2DText_calculate_percentage(current_val) ==
    LET percentage == int(RMul(RDiv(current_val, R(360)), R(100)))
        percentage_string == IF Len(str(percentage)) = 1
                             THEN <<"0">> \o str(percentage)
                             ELSE str(percentage)
    IN percentage_string \o <<"%">>

\* DiskSlider2DText.__init__ with build_actor
DiskSlider2DText_init(position, current_val) ==
    [ actor_position |-> <<RSub(position[1], R(16)), RSub(position[2], R(8))>>,
      message |-> DiskSlider2DText_calculate_percentage(current_val) ]

\* DiskSlider2DText.set_percentage
DiskSlider2DText_set_percentage(t, current_val) ==
    [t EXCEPT !.message = DiskSlider2DText_calculate_percentage(current_val)]

\* DiskSlider2DText.set_center
DiskSlider2DText_set_center(t, position) ==
    [t EXCEPT !.actor_position =
        <<RSub(position[1], R(16)), RSub(position[2], R(8))>>]

\* DiskSlider2D.__init__
DiskSlider2D_init(outer_inner_radius, outer_outer_radius, outer_position) ==
    LET radius == RAdd(outer_inner_radius,
                       RDiv(RSub(outer_outer_radius, outer_inner_radius), R(2)))
    IN [ outer_disk_radius |-> radius,
         outer_disk_center |-> outer_position,
         slider_outer_disk |-> DiskSlider2DBase_init(outer_position),
         slider_inner_disk |-> DiskSlider2DDisk_init(
             <<RAdd(outer_position[1], radius), outer_position[2]>>),
         slider_text |-> DiskSlider2DText_init(outer_position, R(0)) ]

\* what a call gives back: a value, or the exception it raises
Returns(v) == [exc |-> "", val |-> v]
Raises(e) == [exc |-> e, val |-> <<>>]

\* get_poi that measures the pointer's distance along the axes
DiskSlider2D_get_poi_manhattan(s, coordinates) ==
    LET radius == s.outer_disk_radius
        center == s.outer_disk_center
        point == coordinates
        dx == RSub(point[1], center[1])
        dy == RSub(point[2], center[2])
        norm == R(Abs(dx[1]) + Abs(dy[1]))
        x1 == RAdd(center[1], RDiv(RMul(radius, dx), norm))
        x2 == RSub(center[1], RDiv(RMul(radius, dx), norm))
        y1 == IF x1 = x2 THEN RAdd(center[2], radius)
              ELSE RAdd(center[2], RMul(RDiv(dy, dx), RSub(x1, center[1])))
        y2 == IF x1 = x2 THEN RSub(center[2], radius)
              ELSE RAdd(center[2], RMul(RDiv(dy, dx), RSub(x2, center[1])))
        d1 == RAdd(RMul(RSub(x1, point[1]), RSub(x1, point[1])),
                   RMul(RSub(y1, point[2]), RSub(y1, point[2])))
        d2 == RAdd(RMul(RSub(x2, point[1]), RSub(x2, point[1])),
                   RMul(RSub(y2, point[2]), RSub(y2, point[2])))
    IN IF norm = R(0) THEN Raises("ZeroDivisionError")
       ELSE IF RLt(d1, d2) THEN Returns(<<x1, y1>>)
       ELSE Returns(<<x2, y2>>)

\* DiskSlider2D.get_poi, for a pointer at a whole distance from the center
DiskSlider2D_get_poi(s, coordinates) ==
    LET radius == s.outer_disk_radius
        center == s.outer_disk_center
        point == coordinates
        dx == RSub(point[1], center[1])
        dy == RSub(point[2], center[2])
        norm == R(sqrt(RAdd(RMul(dx, dx), RMul(dy, dy))[1]))
        x1 == RAdd(center[1], RDiv(RMul(radius, dx), norm))
        x2 == RSub(center[1], RDiv(RMul(radius, dx), norm))
        y1 == IF x1 = x2 THEN RAdd(center[2], radius)
              ELSE RAdd(center[2], RMul(RDiv(dy, dx), RSub(x1, center[1])))
        y2 == IF x1 = x2 THEN RSub(center[2], radius)
              ELSE RAdd(center[2], RMul(RDiv(dy, dx), RSub(x2, center[1])))
        d1 == RAdd(RMul(RSub(x1, point[1]), RSub(x1, point[1])),
                   RMul(RSub(y1, point[2]), RSub(y1, point[2])))
        d2 == RAdd(RMul(RSub(x2, point[1]), RSub(x2, point[1])),
                   RMul(RSub(y2, point[2]), RSub(y2, point[2])))
    IN IF norm = R(0) THEN Raises("ZeroDivisionError")
       ELSE IF RLt(d1, d2) THEN Returns(<<x1, y1>>)
       ELSE Returns(<<x2, y2>>)

\* DiskSlider2D.get_angle, for a pointer on a compass direction from the
\* center
DiskSlider2D_get_angle(s, coordinates) ==
    LET center == s.outer_disk_center
        perpendicular == RAdd(RSub(R(0), center[2]), coordinates[2])
        base == RAdd(RSub(R(0), center[1]), coordinates[1])
        angle == R(degrees_atan2(perpendicular[1], base[1]))
    IN IF RLt(angle, R(0)) THEN RAdd(angle, R(360)) ELSE angle

\* DiskSlider2D.set_center
DiskSlider2D_set_center(s, position) ==
    [ outer_disk_radius |-> s.outer_disk_radius,
      outer_disk_center |-> position,
      slider_outer_disk |->
          DiskSlider2DBase_set_center(s.slider_outer_disk, position),
      slider_text |-> DiskSlider2DText_set_center(s.slider_text, position),
      slider_inner_disk |->
          DiskSlider2DDisk_set_position(s.slider_inner_disk,
              <<RAdd(position[1], s.outer_disk_radius), position[2]>>) ]

(* The inputs of the disk slider. *)

\* the construction arguments: the defaults of DiskSlider2D.__init__, a thin
\* ring of fractional radius and a ring of no thickness
DiskSliderArgs ==
    { [outer_inner_radius |-> R(40), outer_outer_radius |-> R(44),
       outer_position |-> Pt(450, 100)],
      [outer_inner_radius |-> R(3), outer_outer_radius |-> R(4),
       outer_position |-> Pt(0, 0)],
      [outer_inner_radius |-> R(5), outer_outer_radius |-> R(5),
       outer_position |-> Pt(7, 7)] }
DiskCenters == { Pt(450, 100), Pt(0, 0), Pt(7, 7) }

\* the pointer relative to the center: at a whole distance from it, on and
\* off the ring, inside and outside, and on the center itself
PoiOffsets ==
    { <<0, 0>>, <<1, 0>>, <<-1, 0>>, <<0, 1>>, <<0, -1>>, <<5, 0>>, <<0, -5>>,
      <<42, 0>>, <<-42, 0>>, <<0, 42>>, <<3, 4>>, <<-3, 4>>, <<3, -4>>,
      <<-4, -3>>, <<4, 3>>, <<6, 8>>, <<-8, 6>>, <<5, 12>>, <<-12, -5>>,
      <<30, 40>>, <<40, -30>>, <<-60, 80>> }
\* the pointer relative to the center: on the eight compass directions and on
\* the center itself
AngleOffsets ==
    { <<0, 0>>, <<1, 0>>, <<42, 0>>, <<1, 1>>, <<30, 30>>, <<0, 1>>, <<0, 42>>,
      <<-1, 1>>, <<-30, 30>>, <<-1, 0>>, <<-42, 0>>, <<-1, -1>>, <<-30, -30>>,
      <<0, -1>>, <<0, -42>>, <<1, -1>>, <<30, -30>> }
\* the pointer at an offset from the center of the slider
PointerAt(s, o) ==
    <<RAdd(s.outer_disk_center[1], R(o[1])),
      RAdd(s.outer_disk_center[2], R(o[2]))>>
\* the angles a readout is asked for: every whole angle of [0, 360)
Angles == { R(a) : a \in 0..359 }

InitDiskSlider ==
    \E a \in DiskSliderArgs :
        /\ ds_args = a
        /\ disk_slider = DiskSlider2D_init(a.outer_inner_radius,
                             a.outer_outer_radius, a.outer_position)
        /\ ds_call = [op |-> "__init__", arg |-> a.outer_position,
                      ret |-> Returns(<<>>)]

\* the disk slider while another widget is exercised: DiskSlider2D()
DefaultDiskSliderArgs ==
    [outer_inner_radius |-> R(40), outer_outer_radius |-> R(44),
     outer_position |-> Pt(450, 100)]
IdleDiskSlider ==
    /\ ds_args = DefaultDiskSliderArgs
    /\ disk_slider = DiskSlider2D_init(R(40), R(44), Pt(450, 100))
    /\ ds_call = [op |-> "__init__", arg |-> Pt(450, 100),
                  ret |-> Returns(<<>>)]

(* The calls on a disk slider. *)

\* get_poi(p); when it returns, the handle is put on the returned point
DiskGetPoi ==
    \E o \in PoiOffsets :
        LET p == PointerAt(disk_slider, o)
            r == DiskSlider2D_get_poi(disk_slider, p)
        IN /\ ds_call' = [op |-> "get_poi", arg |-> p, ret |-> r]
           /\ disk_slider' =
                IF r.exc = "" THEN
                    [disk_slider EXCEPT !.slider_inner_disk =
                        DiskSlider2DDisk_set_position(@, r.val)]
                ELSE disk_slider
           /\ UNCHANGED ds_args
           /\ UNCHANGED exceptDS

\* get_angle(p), and the readout of the returned angle
DiskGetAngle ==
    \E o \in AngleOffsets :
        LET p == PointerAt(disk_slider, o)
            a == DiskSlider2D_get_angle(disk_slider, p)
        IN /\ ds_call' = [op |-> "get_angle", arg |-> p, ret |-> Returns(a)]
           /\ disk_slider' =
                [disk_slider EXCEPT !.slider_text =
                    DiskSlider2DText_set_percentage(@, a)]
           /\ UNCHANGED ds_args
           /\ UNCHANGED exceptDS

DiskSetPercentage ==
    \E a \in Angles :
        /\ ds_call' = [op |-> "set_percentage", arg |-> a,
                       ret |-> Returns(<<>>)]
        /\ disk_slider' =
                [disk_slider EXCEPT !.slider_text =
                    DiskSlider2DText_set_percentage(@, a)]
        /\ UNCHANGED ds_args
        /\ UNCHANGED exceptDS

DiskSetCenter ==
    \E p \in DiskCenters :
        /\ ds_call' = [op |-> "set_center", arg |-> p, ret |-> Returns(<<>>)]
        /\ disk_slider' = DiskSlider2D_set_center(disk_slider, p)
        /\ UNCHANGED ds_args
        /\ UNCHANGED exceptDS

----------------------------------------------------------------------------
(* CustomInteractorStyle (doc/examples/scifi_ui_follower.py): the router   *)
(* of pointer events.  SetInteractor attaches it to an interactor; an      *)
(* event delivered to the interactor runs the handlers observing its kind, *)
(* which pick the prop under the pointer, forward the event to it and call *)
(* the trackball camera style.                                             *)

None == "None"

\* the props of the scene: 2D overlay actors and 3D props
Props2D == {"button_actor", "cursor_actor"}
Props3D == {"follower_actor", "cube_actor"}
Props == Props2D \cup Props3D

\* renderer.ui_list: the tracked widgets, each with the actor it owns; the
\* cursor and the cube are owned by no widget
ui_list ==
    << [name |-> "button", actor |-> "button_actor"],
       [name |-> "text", actor |-> "text_actor"],
       [name |-> "follower", actor |-> "follower_actor"],
       [name |-> "button_twin", actor |-> "button_actor"] >>

\* what picker.Pick leaves in the picker: GetPath (kept as the prop of the
\* path's last node), GetActor2D and GetProp3D
Picks ==
    [ path : {None, "follower_actor", "button_actor"},
      actor_2d : {None} \cup Props2D,
      prop_3d : {None} \cup Props3D ]
NoPick == [path |-> None, actor_2d |-> None, prop_3d |-> None]

\* the interactors a style can be attached to
Interactors == {"iren1", "iren2"}

\* the event kinds SetInteractor observes on the style and on the interactor
StyleKinds ==
    { "LeftButtonPressEvent", "LeftButtonReleaseEvent",
      "RightButtonPressEvent", "RightButtonReleaseEvent",
      "MiddleButtonPressEvent", "MiddleButtonReleaseEvent",
      "MouseMoveEvent", "KeyPressEvent" }
WheelKinds == { "MouseWheelForwardEvent", "MouseWheelBackwardEvent" }
EventKinds == StyleKinds \cup WheelKinds
PressKinds ==
    { "LeftButtonPressEvent", "RightButtonPressEvent",
      "MiddleButtonPressEvent" }

\* get_ui_item that falls back on the first widget of ui_list
get_ui_item_first(selected_actor) ==
    LET hits == { i \in 1..Len(ui_list) : ui_list[i].actor = selected_actor }
    IN IF hits = {} THEN ui_list[1].name
       ELSE ui_list[CHOOSE i \in hits : \A j \in hits : i <= j].name

\* get_ui_item that keeps scanning and returns the last owner
get_ui_item_last(selected_actor) ==
    LET hits == { i \in 1..Len(ui_list) : ui_list[i].actor = selected_actor }
    IN IF hits = {} THEN None
       ELSE ui_list[CHOOSE i \in hits : \A j \in hits : i >= j].name

\* CustomInteractorStyle.get_ui_item: the first widget of ui_list that owns
\* the actor, None when the loop ends without one
get_ui_item(selected_actor) ==
    LET hits == { i \in 1..Len(ui_list) : ui_list[i].actor = selected_actor }
    IN IF hits = {} THEN None
       ELSE ui_list[CHOOSE i \in hits : \A j \in hits : i <= j].name

\* The handlers.  self is [chosen_element, forwarded, camera]: the field of
\* the style, the props InvokeEvent was called on and the calls made on
\* trackball_interactor_style.

\* on_left_button_pressed that asks for the 2D overlay actor before the path
on_left_button_pressed_overlay_first(self, pick) ==
    LET path == pick.path
        actor_2d == pick.actor_2d
        actor_3d == pick.prop_3d
        picked ==
            IF actor_2d # None THEN
                [self EXCEPT !.chosen_element = get_ui_item(actor_2d),
                             !.forwarded = Append(@, actor_2d)]
            ELSE IF path # None THEN
                [self EXCEPT !.forwarded = Append(@, path)]
            ELSE IF actor_3d # None THEN
                [self EXCEPT !.chosen_element = get_ui_item(actor_3d),
                             !.forwarded = Append(@, actor_3d)]
            ELSE self
    IN [picked EXCEPT !.camera = Append(@, "OnLeftButtonDown")]

\* on_left_button_pressed that leaves the camera alone when a prop is picked
on_left_button_pressed_exclusive(self, pick) ==
    LET path == pick.path
        actor_2d == pick.actor_2d
        actor_3d == pick.prop_3d
    IN  IF path # None THEN
            [self EXCEPT !.forwarded = Append(@, path)]
        ELSE IF actor_2d # None THEN
            [self EXCEPT !.chosen_element = get_ui_item(actor_2d),
                         !.forwarded = Append(@, actor_2d)]
        ELSE IF actor_3d # None THEN
            [self EXCEPT !.chosen_element = get_ui_item(actor_3d),
                         !.forwarded = Append(@, actor_3d)]
        ELSE [self EXCEPT !.camera = Append(@, "OnLeftButtonDown")]

\* CustomInteractorStyle.on_left_button_pressed
on_left_button_pressed(self, pick) ==
    LET path == pick.path
        actor_2d == pick.actor_2d
        actor_3d == pick.prop_3d
        picked ==
            IF path # None THEN
                [self EXCEPT !.forwarded = Append(@, path)]
            ELSE IF actor_2d # None THEN
                [self EXCEPT !.chosen_element = get_ui_item(actor_2d),
                             !.forwarded = Append(@, actor_2d)]
            ELSE IF actor_3d # None THEN
                [self EXCEPT !.chosen_element = get_ui_item(actor_3d),
                             !.forwarded = Append(@, actor_3d)]
            ELSE self
    IN [picked EXCEPT !.camera = Append(@, "OnLeftButtonDown")]

\* CustomInteractorStyle.on_left_button_released
on_left_button_released(self, pick) ==
    [self EXCEPT !.camera = Append(@, "OnLeftButtonUp")]

\* CustomInteractorStyle.on_right_button_pressed
on_right_button_pressed(self, pick) ==
    LET path == pick.path
        actor_2d == pick.actor_2d
        actor_3d == pick.prop_3d
        picked ==
            IF path # None THEN
                [self EXCEPT !.forwarded = Append(@, path)]
            ELSE IF actor_2d # None THEN
                [self EXCEPT !.chosen_element = get_ui_item(actor_2d),
                             !.forwarded = Append(@, actor_2d)]
            ELSE IF actor_3d # None THEN
                [self EXCEPT !.chosen_element = get_ui_item(actor_3d),
                             !.forwarded = Append(@, actor_3d)]
            ELSE self
    IN [picked EXCEPT !.camera = Append(@, "OnRightButtonDown")]

\* CustomInteractorStyle.on_right_button_released
on_right_button_released(self, pick) ==
    [self EXCEPT !.camera = Append(@, "OnRightButtonUp")]

\* on_middle_button_pressed that rotates instead of panning
on_middle_button_pressed_rotate(self, pick) ==
    [self EXCEPT !.camera = Append(@, "OnLeftButtonDown")]

\* CustomInteractorStyle.on_middle_button_pressed
on_middle_button_pressed(self, pick) ==
    [self EXCEPT !.camera = Append(@, "OnMiddleButtonDown")]

\* CustomInteractorStyle.on_middle_button_released
on_middle_button_released(self, pick) ==
    [self EXCEPT !.camera = Append(@, "OnMiddleButtonUp")]

\* CustomInteractorStyle.on_mouse_moved
on_mouse_moved(self, pick) ==
    [self EXCEPT !.camera = Append(@, "OnMouseMove")]

\* CustomInteractorStyle.on_mouse_wheel_forward
on_mouse_wheel_forward(self, pick) ==
    [self EXCEPT !.camera = Append(@, "OnMouseWheelForward")]

\* CustomInteractorStyle.on_mouse_wheel_backward
on_mouse_wheel_backward(self, pick) ==
    [self EXCEPT !.camera = Append(@, "OnMouseWheelBackward")]

\* CustomInteractorStyle.on_key_press
on_key_press(self, pick) == self

\* the handler SetInteractor attaches for an event kind
Handler(kind, self, pick) ==
    CASE kind = "LeftButtonPressEvent" -> on_left_button_pressed(self, pick)
      [] kind = "LeftButtonReleaseEvent" -> on_left_button_released(self, pick)
      [] kind = "RightButtonPressEvent" -> on_right_button_pressed(self, pick)
      [] kind = "RightButtonReleaseEvent" ->
            on_right_button_released(self, pick)
      [] kind = "MiddleButtonPressEvent" ->
            on_middle_button_pressed(self, pick)
      [] kind = "MiddleButtonReleaseEvent" ->
            on_middle_button_released(self, pick)
      [] kind = "MouseMoveEvent" -> on_mouse_moved(self, pick)
      [] kind = "KeyPressEvent" -> on_key_press(self, pick)
      [] kind = "MouseWheelForwardEvent" -> on_mouse_wheel_forward(self, pick)
      [] kind = "MouseWheelBackwardEvent" ->
            on_mouse_wheel_backward(self, pick)

\* what the trackball style does with an event it observes itself
TrackballCall(kind) ==
    CASE kind = "LeftButtonPressEvent" -> "OnLeftButtonDown"
      [] kind = "LeftButtonReleaseEvent" -> "OnLeftButtonUp"
      [] kind = "RightButtonPressEvent" -> "OnRightButtonDown"
      [] kind = "RightButtonReleaseEvent" -> "OnRightButtonUp"
      [] kind = "MiddleButtonPressEvent" -> "OnMiddleButtonDown"
      [] kind = "MiddleButtonReleaseEvent" -> "OnMiddleButtonUp"
      [] kind = "MouseMoveEvent" -> "OnMouseMove"
      [] kind = "KeyPressEvent" -> "OnKeyPress"
      [] kind = "MouseWheelForwardEvent" -> "OnMouseWheelForward"
      [] kind = "MouseWheelBackwardEvent" -> "OnMouseWheelBackward"

(* The observers.  o.interactor is the interactor each of the two styles   *)
(* is set on; o.hooks[i] counts, on interactor i, the hook of the router   *)
(* (style), the hook of the trackball style and the two wheel observers;   *)
(* o.handlers[k] counts the observers of kind k on the router.             *)

NoHooks ==
    [style |-> 0, trackball |-> 0, wheel_forward |-> 0, wheel_backward |-> 0]

\* CustomInteractorStyle.__init__: nothing is attached
CustomInteractorStyle_init ==
    [ interactor |-> [style |-> None, trackball |-> None],
      hooks |-> [i \in Interactors |-> NoHooks],
      handlers |-> [k \in StyleKinds |-> 0] ]

\* vtkInteractorStyle.SetInteractor of one of the two styles: nothing when it
\* is already set on this interactor, else its hook leaves the interactor it
\* was on and is added to this one
vtkInteractorStyle_SetInteractor(o, who, interactor) ==
    LET cur == o.interactor[who]
        left == IF cur = None THEN o.hooks
                ELSE [o.hooks EXCEPT ![cur][who] = 0]
    IN IF interactor = cur THEN o
       ELSE [o EXCEPT !.interactor[who] = interactor,
                      !.hooks = [left EXCEPT ![interactor][who] = @ + 1]]

\* interactor.RemoveAllObservers
RemoveAllObservers(o, interactor) ==
    [o EXCEPT !.hooks[interactor] = NoHooks]

\* the eight self.AddObserver calls of SetInteractor
AddStyleObservers(o) ==
    [o EXCEPT !.handlers = [k \in StyleKinds |-> @[k] + 1]]

\* the two interactor.AddObserver calls of SetInteractor
AddWheelObservers(o, interactor) ==
    [o EXCEPT !.hooks[interactor].wheel_forward = @ + 1,
              !.hooks[interactor].wheel_backward = @ + 1]

\* CustomInteractorStyle.SetInteractor
CustomInteractorStyle_SetInteractor(o, interactor) ==
    LET o1 == vtkInteractorStyle_SetInteractor(o, "trackball", interactor)
        o2 == RemoveAllObservers(o1, interactor)
        o3 == vtkInteractorStyle_SetInteractor(o2, "style", interactor)
        o4 == AddStyleObservers(o3)
    IN AddWheelObservers(o4, interactor)

\* how many times the router's handler of a kind runs for one event of that
\* kind delivered to an interactor
HandlerRuns(o, kind, interactor) ==
    IF kind \in StyleKinds
    THEN o.hooks[interactor].style * o.handlers[kind]
    ELSE IF kind = "MouseWheelForwardEvent"
    THEN o.hooks[interactor].wheel_forward
    ELSE o.hooks[interactor].wheel_backward

RECURSIVE RunHandlers(_, _, _, _)
RunHandlers(n, kind, self, pick) ==
    IF n = 0 THEN self
    ELSE RunHandlers(n - 1, kind, Handler(kind, self, pick), pick)

\* one event delivered to an interactor: the trackball style acts on it by
\* itself if its hook is on the interactor, and the router's handlers run
DeliverEvent(o, chosen, kind, pick, interactor) ==
    LET direct == IF o.hooks[interactor].trackball > 0
                  THEN <<TrackballCall(kind)>> ELSE <<>>
        self == [chosen_element |-> chosen, forwarded |-> <<>>,
                 camera |-> direct]
    IN RunHandlers(HandlerRuns(o, kind, interactor), kind, self, pick)

(* The inputs of the router. *)

\* calls of SetInteractor on one router
MaxRegistrations == 2

\* the router as ShowManager leaves it: built, then set on its interactor
InitRouter ==
    /\ observers =
         CustomInteractorStyle_SetInteractor(CustomInteractorStyle_init, "iren1")
    /\ chosen_element = None
    /\ rt_event = [op |-> "SetInteractor", kind |-> None, pick |-> NoPick,
                   interactor |-> "iren1", runs |-> 0]
    /\ forwarded = <<>>
    /\ camera = <<>>
    /\ camera_down = {}
    /\ router_down = {}

\* the router just built
InitRegistration ==
    /\ observers = CustomInteractorStyle_init
    /\ chosen_element = None
    /\ rt_event = [op |-> "__init__", kind |-> None, pick |-> NoPick,
                   interactor |-> None, runs |-> 0]
    /\ forwarded = <<>>
    /\ camera = <<>>
    /\ camera_down = {}
    /\ router_down = {}

\* the router while another widget is exercised
IdleRouter == InitRegistration

\* the mouse buttons, and the press and release events of each
Buttons == {"Left", "Right", "Middle"}
PressEvent(b) ==
    CASE b = "Left" -> "LeftButtonPressEvent"
      [] b = "Right" -> "RightButtonPressEvent"
      [] b = "Middle" -> "MiddleButtonPressEvent"
ReleaseEvent(b) ==
    CASE b = "Left" -> "LeftButtonReleaseEvent"
      [] b = "Right" -> "RightButtonReleaseEvent"
      [] b = "Middle" -> "MiddleButtonReleaseEvent"

\* the buttons the trackball style holds down after a sequence of calls on
\* it: OnXButtonDown starts the motion of button X, OnXButtonUp ends it
RECURSIVE ApplyCalls(_, _)
ApplyCalls(down, calls) ==
    IF calls = <<>> THEN down
    ELSE LET call == Head(calls)
             pressed == {b \in Buttons : call = TrackballCall(PressEvent(b))}
             released == {b \in Buttons :
                             call = TrackballCall(ReleaseEvent(b))}
         IN ApplyCalls((down \cup pressed) \ released, Tail(calls))

\* the buttons whose last event handled by the router is a press, after one
\* more event
ApplyEvent(down, kind) ==
    (down \cup {b \in Buttons : kind = PressEvent(b)})
        \ {b \in Buttons : kind = ReleaseEvent(b)}

(* The calls on a router and the events delivered to it. *)

SetInteractor ==
    \E i \in Interactors :
        /\ observers.handlers["LeftButtonPressEvent"] < MaxRegistrations
        /\ observers' = CustomInteractorStyle_SetInteractor(observers, i)
        /\ rt_event' = [op |-> "SetInteractor", kind |-> None,
                        pick |-> NoPick, interactor |-> i, runs |-> 0]
        /\ forwarded' = <<>>
        /\ camera' = <<>>
        /\ UNCHANGED <<chosen_element, camera_down, router_down>>
        /\ UNCHANGED exceptRT

\* a button press at a position where the picker finds any of Picks
Press ==
    \E kind \in PressKinds, pick \in Picks, i \in Interactors :
        LET self == DeliverEvent(observers, chosen_element, kind, pick, i)
        IN /\ chosen_element' = self.chosen_element
           /\ forwarded' = self.forwarded
           /\ camera' = self.camera
           /\ camera_down' = ApplyCalls(camera_down, self.camera)
           /\ router_down' =
                IF HandlerRuns(observers, kind, i) > 0
                THEN ApplyEvent(router_down, kind) ELSE router_down
           /\ rt_event' = [op |-> "event", kind |-> kind, pick |-> pick,
                           interactor |-> i,
                           runs |-> HandlerRuns(observers, kind, i)]
           /\ UNCHANGED observers
           /\ UNCHANGED exceptRT

\* any other event; its handler asks the picker nothing
Other ==
    \E kind \in EventKinds \ PressKinds, i \in Interactors :
        LET self == DeliverEvent(observers, chosen_element, kind, NoPick, i)
        IN /\ chosen_element' = self.chosen_element
           /\ forwarded' = self.forwarded
           /\ camera' = self.camera
           /\ camera_down' = ApplyCalls(camera_down, self.camera)
           /\ router_down' =
                IF HandlerRuns(observers, kind, i) > 0
                THEN ApplyEvent(router_down, kind) ELSE router_down
           /\ rt_event' = [op |-> "event", kind |-> kind, pick |-> NoPick,
                           interactor |-> i,
                           runs |-> HandlerRuns(observers, kind, i)]
           /\ UNCHANGED observers
           /\ UNCHANGED exceptRT

----------------------------------------------------------------------------
(* Panel2D: a background Rectangle2D and the elements added to it.  An      *)
(* element is held by name, as Python holds it by reference: ui_list is a   *)
(* list of names, "panel" being the background, and elements maps a name to *)
(* the widget, [class, obj].                                                *)

\* Rectangle2D.__init__: build_actor places the actor
Rectangle2D_init(size, center) ==
    [ size |-> size, actor_position |-> Rectangle2D_position(size, center) ]

\* Rectangle2D.set_center that takes the position for the lower-left corner
Rectangle2D_set_center_corner(r, position) ==
    [r EXCEPT !.actor_position = position]

\* Rectangle2D.set_center
Rectangle2D_set_center(r, position) ==
    [r EXCEPT !.actor_position =
        <<RSub(position[1], RDiv(r.size[1], R(2))),
          RSub(position[2], RDiv(r.size[2], R(2)))>>]

\* element.set_center(position): the method of the element's class
Element_set_center(element, position) ==
    CASE element.class = "Button2D" ->
            [element EXCEPT !.obj = Button2D_set_center(@, position)]
      [] element.class = "Rectangle2D" ->
            [element EXCEPT !.obj = Rectangle2D_set_center(@, position)]
      [] element.class = "LineSlider2D" ->
            [element EXCEPT !.obj = LineSlider2D_set_center(@, position)]

\* Panel2D.__init__
Panel2D_init(center, size) ==
    [ center |-> center,
      size |-> size,
      panel |-> Rectangle2D_init(size, center),
      lower_limits |-> <<RSub(center[1], RDiv(size[1], R(2))),
                         RSub(center[2], RDiv(size[2], R(2)))>>,
      ui_list |-> <<"panel">> ]

\* add_element that measures the offset from the center of the panel
Panel2D_add_element_from_center(self, els, element, relative_position) ==
    LET position ==
            <<RAdd(self.center[1], RMul(relative_position[1], self.size[1])),
              RAdd(self.center[2], RMul(relative_position[2], self.size[2]))>>
    IN [ panel |-> [self EXCEPT !.ui_list = Append(@, element)],
         elements |->
             [els EXCEPT ![element] = Element_set_center(@, position)],
         set_center |-> position ]

\* Panel2D.add_element: the panel and the elements after the call, and the
\* position element.set_center was called with
Panel2D_add_element(self, els, element, relative_position) ==
    LET position ==
            <<RAdd(self.lower_limits[1],
                   RMul(relative_position[1], self.size[1])),
              RAdd(self.lower_limits[2],
                   RMul(relative_position[2], self.size[2]))>>
    IN [ panel |-> [self EXCEPT !.ui_list = Append(@, element)],
         elements |->
             [els EXCEPT ![element] = Element_set_center(@, position)],
         set_center |-> position ]

\* set_center of a panel that lays its elements out again
Panel2D_set_center_relayout(self, els, position) ==
    LET moved == [self EXCEPT
                    !.center = position,
                    !.lower_limits =
                        <<RSub(position[1], RDiv(self.size[1], R(2))),
                          RSub(position[2], RDiv(self.size[2], R(2)))>>,
                    !.panel = Rectangle2D_set_center(@, position)]
    IN [ panel |-> moved,
         elements |->
             [e \in DOMAIN els |->
                 IF \E i \in 2..Len(self.ui_list) : self.ui_list[i] = e
                 THEN Element_set_center(els[e], moved.lower_limits)
                 ELSE els[e]] ]

\* set_center of a panel: only the background rectangle moves
Panel2D_set_center(self, els, position) ==
    [ panel |-> [self EXCEPT !.panel = Rectangle2D_set_center(@, position)],
      elements |-> els ]

\* widget.ui_list: a Button2D and a Rectangle2D hold themselves, a
\* LineSlider2D its track, its handle and its label.  A widget that has an
\* actor is <<name, part>>, and that pair stands for its actor as well.
Widget_ui_list(name, class) ==
    IF class = "LineSlider2D"
    THEN <<<<name, "slider_line">>, <<name, "slider_disk">>, <<name, "text">>>>
    ELSE <<<<name, "self">>>>

\* the class of the widget a name of a panel's ui_list stands for
ClassOf(els, name) ==
    IF name = "panel" THEN "Rectangle2D" ELSE els[name].class

\* add_to_renderer that adds one actor for each item of the panel's ui_list
RECURSIVE Panel2D_add_to_renderer_flat(_, _, _)
Panel2D_add_to_renderer_flat(self, els, ren) ==
    IF self.ui_list = <<>> THEN ren
    ELSE LET ui_item_list == Head(self.ui_list)
             inner == Widget_ui_list(ui_item_list, ClassOf(els, ui_item_list))
         IN Panel2D_add_to_renderer_flat(
                [self EXCEPT !.ui_list = Tail(@)], els,
                Append(ren, inner[1]))

\* Panel2D.add_to_renderer: the outer loop over self.ui_list, the inner loop
\* over the ui_list of each item, ren.add(ui_item.actor)
RECURSIVE Panel2D_add_to_renderer(_, _, _)
Panel2D_add_to_renderer(self, els, ren) ==
    IF self.ui_list = <<>> THEN ren
    ELSE LET ui_item_list == Head(self.ui_list)
             inner == Widget_ui_list(ui_item_list, ClassOf(els, ui_item_list))
         IN Panel2D_add_to_renderer(
                [self EXCEPT !.ui_list = Tail(@)], els, ren \o inner)

(* The inputs of the panel. *)

\* the centers and sizes panels are built with
PanelArgs ==
    { [center |-> Pt(200, 100), size |-> Pt(100, 50)],
      [center |-> Pt(45, 30), size |-> Pt(25, 15)] }
\* the relative positions elements are added at
RelativePositions ==
    { <<R(0), R(0)>>, <<Frac(1, 2), Frac(1, 2)>>, <<Frac(1, 4), Frac(3, 4)>> }
\* the positions a panel or an element is moved to
PanelPositions == { Pt(0, 0), Pt(100, 50) }
\* the widgets built to be put on a panel
ElementIds == {"button", "rectangle", "slider"}
NewElements ==
    [ e \in ElementIds |->
        IF e = "button"
        THEN [class |-> "Button2D",
              obj |-> Button2D_set_center(Button2D_init(<<"play">>), Pt(0, 0))]
        ELSE IF e = "rectangle"
        THEN [class |-> "Rectangle2D",
              obj |-> Rectangle2D_init(Pt(25, 15), Pt(0, 0))]
        ELSE [class |-> "LineSlider2D",
              obj |-> LineSlider2D_init(DefaultLineSliderArgs.start_point,
                          DefaultLineSliderArgs.end_point,
                          DefaultLineSliderArgs.line_width,
                          DefaultLineSliderArgs.center,
                          DefaultLineSliderArgs.length)] ]

InitPanel ==
    \E a \in PanelArgs :
        /\ panel = Panel2D_init(a.center, a.size)
        /\ elements = NewElements
        /\ pn_call = [op |-> "__init__", element |-> None, arg |-> a.center,
                      set_center |-> None]
        /\ renderer = <<>>

\* the panel while another widget is exercised
IdlePanel ==
    /\ panel = Panel2D_init(Pt(200, 100), Pt(100, 50))
    /\ elements = NewElements
    /\ pn_call = [op |-> "__init__", element |-> None, arg |-> Pt(200, 100),
                  set_center |-> None]
    /\ renderer = <<>>

(* The calls on a panel and on its elements. *)

PanelAddElement ==
    \E e \in ElementIds, rel \in RelativePositions :
        LET r == Panel2D_add_element(panel, elements, e, rel)
        IN /\ Len(panel.ui_list) - 1 < MaxElements
           /\ panel' = r.panel
           /\ elements' = r.elements
           /\ pn_call' = [op |-> "add_element", element |-> e, arg |-> rel,
                          set_center |-> r.set_center]
           /\ UNCHANGED renderer
           /\ UNCHANGED exceptPN

PanelSetCenter ==
    \E p \in PanelPositions :
        LET r == Panel2D_set_center(panel, elements, p)
        IN /\ panel' = r.panel
           /\ elements' = r.elements
           /\ pn_call' = [op |-> "set_center", element |-> "panel", arg |-> p,
                          set_center |-> None]
           /\ UNCHANGED renderer
           /\ UNCHANGED exceptPN

\* set_center called on a widget itself
ElementSetCenter ==
    \E e \in ElementIds, p \in PanelPositions :
        /\ elements' = [elements EXCEPT ![e] = Element_set_center(@, p)]
        /\ pn_call' = [op |-> "set_center", element |-> e, arg |-> p,
                       set_center |-> None]
        /\ UNCHANGED <<panel, renderer>>
        /\ UNCHANGED exceptPN

\* panel.add_to_renderer(ren), on a renderer that holds nothing yet
PanelAddToRenderer ==
    /\ renderer = <<>>
    /\ renderer' = Panel2D_add_to_renderer(panel, elements, renderer)
    /\ pn_call' = [op |-> "add_to_renderer", element |-> "panel",
                   arg |-> None, set_center |-> None]
    /\ UNCHANGED <<panel, elements>>
    /\ UNCHANGED exceptPN

----------------------------------------------------------------------------
(* The specifications. *)

\* the widgets that a specification does not exercise
IdleSliders == IdleLineSlider /\ IdleDiskSlider
IdleWidgets == IdleTextBox /\ IdleButton

\* a text box under any sequence of calls
InitTB == InitTextBox /\ IdleButton /\ IdleSliders /\ IdleRouter /\ IdlePanel
SpecTextBox == InitTB /\ [][NextTextBox]_vars

\* a text box a word is typed into
InitTyping == InitTypingBox /\ IdleButton /\ IdleSliders /\ IdleRouter /\ IdlePanel
NextTyping ==
    \/ EditMode
    \/ TypeCharacter
SpecTyping == InitTyping /\ [][NextTyping]_vars

\* a button under any sequence of calls
InitBT == IdleTextBox /\ InitButton /\ IdleSliders /\ IdleRouter /\ IdlePanel
NextButton ==
    \/ NextIconName
    \/ NextIcon
    \/ ButtonSetCenter
SpecButton == InitBT /\ [][NextButton]_vars

\* a line slider under any sequence of drags and set_center calls
InitLS == IdleWidgets /\ InitLineSlider /\ IdleDiskSlider /\ IdleRouter /\ IdlePanel
NextLineSlider ==
    \/ LineDrag
    \/ LineSetCenter
SpecLineSlider == InitLS /\ [][NextLineSlider]_vars

\* a disk slider whose handle follows the pointer
InitDS == IdleWidgets /\ IdleLineSlider /\ InitDiskSlider /\ IdleRouter /\ IdlePanel
NextDiskSlider ==
    \/ DiskGetPoi
    \/ DiskSetCenter
SpecDiskSlider == InitDS /\ [][NextDiskSlider]_vars

\* the readout of a disk slider
NextDiskReadout ==
    \/ DiskGetAngle
    \/ DiskSetPercentage
SpecDiskReadout == InitDS /\ [][NextDiskReadout]_vars

\* a router set on its interactor once, under any sequence of events
InitRT == IdleWidgets /\ IdleSliders /\ InitRouter /\ IdlePanel
NextRouter ==
    \/ Press
    \/ Other
SpecRouter == InitRT /\ [][NextRouter]_vars

\* a router set on interactors any number of times, between events
InitRG == IdleWidgets /\ IdleSliders /\ InitRegistration /\ IdlePanel
NextRegistration ==
    \/ SetInteractor
    \/ Press
    \/ Other
SpecRegistration == InitRG /\ [][NextRegistration]_vars

\* a panel that elements are added to and that is moved, and elements moved
\* by themselves
InitPN == IdleWidgets /\ IdleSliders /\ IdleRouter /\ InitPanel
NextPanel ==
    \/ PanelAddElement
    \/ PanelSetCenter
    \/ ElementSetCenter
SpecPanel == InitPN /\ [][NextPanel]_vars

\* a panel that elements are added to and that is then added to a renderer
NextPanelRender ==
    \/ PanelAddElement
    \/ PanelAddToRenderer
SpecPanelRender == InitPN /\ [][NextPanelRender]_vars

----------------------------------------------------------------------------
(* Properties of the text box. *)

\* the tuple (text, caret_pos, window_left, window_right) of a box
Core(s) == <<s.text, s.caret_pos, s.window_left, s.window_right>>

\* the number of characters a full window spans: width*height - 1
Capacity == width * height - 1

\* t with ch inserted so that it becomes the character of index c (0-based)
InsertAt(t, c, ch) ==
    [i \in 1..(Len(t) + 1) |->
        IF i <= c THEN t[i] ELSE IF i = c + 1 THEN ch ELSE t[i - 1]]

\* t without its character of index c - 1 (0-based)
RemoveBefore(t, c) ==
    [i \in 1..(Len(t) - 1) |-> IF i < c THEN t[i] ELSE t[i + 1]]

\* the last call was handle_character with a key that reads k in lower case
Handled(call, k) == call.op = "handle_character" /\ lower(call.arg) = k

\* the last call was handle_character with a key it passes to add_character
HandledByAdd(call) ==
    /\ call.op = "handle_character"
    /\ lower(call.arg) \notin {STR_return, STR_backspace, STR_left, STR_right}

\* C1: in edit mode, after every call, 0 <= window_left <= window_right and
\* window_right - window_left <= width*height - 1.
C1_WindowInvariant ==
    ~init => /\ 0 <= window_left
             /\ window_left <= window_right
             /\ window_right - window_left <= Capacity

\* a backspace has scrolled a full window back, and it is still scrolled
C1_Witness ==
    /\ ~init
    /\ Handled(tb_call, STR_backspace)
    /\ window_left > 0
    /\ window_right - window_left = Capacity

\* C2: in every state reached in edit mode, caret moves included,
\* add_character(c) for an accepted c followed by remove_character()
\* restores (text, caret_pos, window_left, window_right).
C2_RoundTrip ==
    ~init => \A k \in AcceptedKeys :
                 Core(remove_character(add_character(Box, k))) = Core(Box)

\* a caret move has left the caret inside the text of a scrolled window, where
\* an insert slides both edges of the window and the delete slides them back
C2_Witness ==
    /\ ~init
    /\ Handled(tb_call, STR_left)
    /\ window_left > 0
    /\ caret_pos < Len(text)
    /\ \E k \in AcceptedKeys :
          /\ add_character(Box, k).window_left = window_left + 1
          /\ add_character(Box, k).window_right = window_right + 1
          /\ Core(remove_character(add_character(Box, k))) = Core(Box)

\* C3: in edit mode, after every key, 0 <= caret_pos <= len(text) and
\* window_left <= caret_pos <= window_right + 1.
C3_CaretInvariant ==
    ~init => /\ 0 <= caret_pos
             /\ caret_pos <= Len(text)
             /\ window_left <= caret_pos
             /\ caret_pos <= window_right + 1

\* a left key has moved the caret past the left edge of a scrolled window,
\* and the window has followed it
C3_Witness ==
    /\ ~init
    /\ Handled(tb_call, STR_left)
    /\ window_left > 0
    /\ caret_pos = window_left

\* C4: after typing n single characters into a fresh, empty box and nothing
\* else, window_right = n and window_left = max(0, n - (width*height - 1));
\* with width 5, height 2 and "HELLOWORLD" typed, window_right - window_left
\* is 9 and the visible text ends in "WORLD".
C4_TypingScrolls ==
    ~init =>
        LET n == Len(text)
            visible == showable_text(Box, FALSE)
        IN  /\ window_right = n
            /\ window_left = Max(0, n - Capacity)
            /\ (width = 5 /\ height = 2 /\ text = STR_HELLOWORLD) =>
                  /\ window_right - window_left = 9
                  /\ Len(visible) >= 5
                  /\ SubSeq(visible, Len(visible) - 4, Len(visible))
                        = <<"W", "O", "R", "L", "D">>

\* "HELLOWORLD" has been typed into the 5 x 2 box
C4_Witness ==
    /\ ~init
    /\ width = 5
    /\ height = 2
    /\ text = STR_HELLOWORLD
    /\ Handled(tb_call, <<"d">>)

\* C5: add_character with a token of more than one character that is not
\* "space" in any letter case leaves text, caret_pos, window_left and
\* window_right unchanged; the token "space" in any case inserts exactly ' '.
C5_InsertRejection ==
    /\ [](~init =>
            \A k \in Keys :
                /\ (Len(k) > 1 /\ lower(k) # STR_space)
                       => Core(add_character(Box, k)) = Core(Box)
                /\ lower(k) = STR_space
                       => add_character(Box, k).text
                              = InsertAt(text, caret_pos, " "))
    /\ [][HandledByAdd(tb_call') =>
            LET k == tb_call'.arg
            IN  /\ (Len(k) > 1 /\ lower(k) # STR_space)
                       => UNCHANGED <<text, caret_pos, window_left, window_right>>
                /\ lower(k) = STR_space
                       => text' = InsertAt(text, caret_pos, " ")]_vars

\* the key "Up" has been ignored by a box whose text holds a space typed
\* with the key "Space"
C5_Witness ==
    /\ ~init
    /\ tb_call.op = "handle_character"
    /\ tb_call.arg = <<"U", "p">>
    /\ \E i \in 1..Len(text) : text[i] = " "

\* C6: handle_character returns True exactly for "return" in any case, and
\* then leaves text, caret_pos and the window unchanged; any other key
\* returns False and is dispatched to remove_character ("backspace"),
\* move_left ("left"), move_right ("right") or add_character (the rest).
C6_KeyDispatch ==
    [][tb_call'.op = "handle_character" =>
        LET key == tb_call'.arg
            k == lower(key)
            after == <<text', caret_pos', window_left', window_right'>>
        IN  /\ tb_call'.ret \in {"True", "False"}
            /\ tb_call'.ret = "True" <=> k = STR_return
            /\ k = STR_return => after = Core(Box)
            /\ k = STR_backspace => after = Core(remove_character(Box))
            /\ k = STR_left => after = Core(move_left(Box))
            /\ k = STR_right => after = Core(move_right(Box))
            /\ k \notin {STR_return, STR_backspace, STR_left, STR_right}
                   => after = Core(add_character(Box, key))]_vars

\* the key "Return" has committed a text
C6_Witness ==
    /\ tb_call.op = "handle_character"
    /\ tb_call.arg = <<"R", "e", "t", "u", "r", "n">>
    /\ tb_call.ret = "True"
    /\ Len(text) > 0

\* C7: remove_character at caret_pos 0 changes nothing; at caret_pos c > 0 it
\* removes exactly the character of index c-1, keeps the others in order and
\* sets caret_pos to c-1.
C7_Backspace ==
    [][Handled(tb_call', STR_backspace) =>
        /\ caret_pos = 0
               => UNCHANGED <<text, caret_pos, window_left, window_right>>
        /\ caret_pos > 0
               => /\ text' = RemoveBefore(text, caret_pos)
                  /\ caret_pos' = caret_pos - 1]_vars

\* a backspace has removed a character from inside a text of letters and
\* spaces
C7_Witness ==
    /\ Handled(tb_call, STR_backspace)
    /\ 0 < caret_pos
    /\ caret_pos < Len(text)
    /\ text[caret_pos] # text[caret_pos + 1]

\* C8: the first edit_mode() clears the placeholder to the empty string and
\* sets caret_pos to 0; every later edit_mode() leaves text, caret_pos,
\* window_left and window_right unchanged.
C8_EditEntry ==
    [][tb_call'.op = "edit_mode" =>
        /\ init => text' = <<>> /\ caret_pos' = 0 /\ ~init'
        /\ ~init => /\ UNCHANGED <<text, caret_pos, window_left, window_right>>
                    /\ ~init']_vars

\* edit_mode has been called again on a box that holds typed text
C8_Witness ==
    /\ tb_call.op = "edit_mode"
    /\ ~init
    /\ Len(text) > 0
    /\ caret_pos > 0

----------------------------------------------------------------------------
(* Properties of the button. *)

\* next_icon called k times
RECURSIVE next_icon_times(_, _)
next_icon_times(b, k) ==
    IF k = 0 THEN b ELSE next_icon(next_icon_times(b, k - 1))

\* C9: after construction and after any number of next_icon /
\* next_icon_name calls, 0 <= current_icon_id < number of icons, and each
\* call changes the index from i to (i + 1) mod the number of icons.
C9_IndexInvariant ==
    /\ [](0 <= current_icon_id /\ current_icon_id < Len(icon_names))
    /\ [][bt_call' \in {"next_icon", "next_icon_name"} =>
            current_icon_id' = (current_icon_id + 1) % Len(icon_names)]_vars

\* next_icon_name has wrapped the index of a button of several icons to 0
C9_Witness ==
    /\ bt_call = "next_icon_name"
    /\ Len(icon_names) >= 2
    /\ current_icon_id = 0

\* C10: for a button with N >= 1 icons, N calls of next_icon from any state
\* return to the same current_icon_id and current_icon_name, and during
\* them every icon is current exactly once, in the order of icon_names.
C10_FullCycle ==
    LET N == Len(icon_names)
        at(k) == next_icon_times(Button, k)
    IN  /\ N >= 1
        /\ at(N).current_icon_id = current_icon_id
        /\ at(N).current_icon_name = current_icon_name
        /\ \A k \in 1..N :
              /\ at(k).current_icon_id = (current_icon_id + k) % N
              /\ at(k).current_icon_name
                    = icon_names[((current_icon_id + k) % N) + 1]
        /\ {at(k).current_icon_name : k \in 1..N}
              = {icon_names[i] : i \in 1..N}
        /\ Cardinality({at(k).current_icon_name : k \in 1..N}) = N

\* next_icon has brought a button of three icons or more back to its first
C10_Witness ==
    /\ bt_call = "next_icon"
    /\ Len(icon_names) >= 3
    /\ current_icon_id = 0
    /\ current_icon_name = icon_names[1]
    /\ mapper_input = icons(Button, icon_names[1])

-----------------------------------------------------------------------------
(* Properties of the line slider. *)

\* the ends of the track a line slider was built with
LeftX == RSub(ls_args.center[1], RDiv(ls_args.length, R(2)))
RightX == RAdd(ls_args.center[1], RDiv(ls_args.length, R(2)))

\* the percentage the label of the slider computes for an x
Percentage(x) == LineSlider2DText_calculate_percentage(line_slider.text, x)

\* C11: for a slider built with any center and any length > 0, the percentage
\* computed for the left end center.x - length/2 is 0 and for the right end
\* center.x + length/2 is 100, an x left of the track gives 0 and an x right
\* of it 100, an x on the track gives its share of the track, and a drag shows
\* the percentage of its x; on the default slider (350..550) x = 350 gives
\* 0%, x = 550 gives 100% and x = 450 gives 50%.
C11_PercentageEndpoints ==
    /\ Percentage(LeftX) = <<R(0), "%">>
    /\ Percentage(RightX) = <<R(100), "%">>
    /\ \A p \in LinePoints :
          /\ RLt(p[1], LeftX) => Percentage(p[1]) = <<R(0), "%">>
          /\ RLt(RightX, p[1]) => Percentage(p[1]) = <<R(100), "%">>
          /\ RLe(LeftX, p[1]) /\ RLe(p[1], RightX) =>
                Percentage(p[1]) =
                    <<RDiv(RMul(RSub(p[1], LeftX), R(100)), ls_args.length),
                      "%">>
    /\ ls_call.op = "drag" =>
          line_slider.text.message = Percentage(ls_call.arg[1])
    /\ ls_args = DefaultLineSliderArgs =>
          /\ Percentage(R(350)) = <<R(0), "%">>
          /\ Percentage(R(550)) = <<R(100), "%">>
          /\ Percentage(R(450)) = <<R(50), "%">>

\* the handle of the default slider was dragged past the right end of the
\* track, and the label shows 100%
C11_Witness ==
    /\ ls_args = DefaultLineSliderArgs
    /\ ls_call = [op |-> "drag", arg |-> Pt(551, 20)]
    /\ line_slider.text.message = <<R(100), "%">>

\* C12: after any sequence of set_position and set_center calls the handle's
\* x lies in [center.x - length/2, center.x + length/2] and its y is center.y,
\* for the current center, which is the argument of the last set_center.
C12_HandleClamp ==
    LET d == line_slider.slider_disk
        lo == RSub(d.center[1], RDiv(d.length, R(2)))
        hi == RAdd(d.center[1], RDiv(d.length, R(2)))
    IN /\ RLe(lo, d.actor_position[1])
       /\ RLe(d.actor_position[1], hi)
       /\ d.actor_position[2] = d.center[2]
       /\ d.length = ls_args.length
       /\ ls_call.op = "set_center" => d.center = ls_call.arg
       /\ ls_call.op = "drag" /\ RLe(lo, ls_call.arg[1])
                              /\ RLe(ls_call.arg[1], hi) =>
             d.actor_position[1] = ls_call.arg[1]

\* a slider moved to another center, whose handle was then dragged to a point
\* right of the track and off its axis, and stopped at the track's right end
C12_Witness ==
    LET d == line_slider.slider_disk
        hi == RAdd(d.center[1], RDiv(d.length, R(2)))
    IN /\ d.center # ls_args.center
       /\ ls_call.op = "drag"
       /\ RLt(hi, ls_call.arg[1])
       /\ ls_call.arg[2] # d.center[2]
       /\ d.actor_position = <<hi, d.center[2]>>

\* C13: after any sequence of drag updates and LineSlider2D.set_center calls,
\* the percentage the label shows is the percentage of the handle's x.
C13_NoDrift ==
    ls_call.op # "__init__" =>
        line_slider.text.message =
            Percentage(line_slider.slider_disk.actor_position[1])

-----------------------------------------------------------------------------
(* Properties of the disk slider. *)

\* the square of the distance between two points
Dist2(p, q) ==
    RAdd(RMul(RSub(p[1], q[1]), RSub(p[1], q[1])),
         RMul(RSub(p[2], q[2]), RSub(p[2], q[2])))

\* C14: outer_disk_radius is the midpoint of the ring's inner and outer radii,
\* every point get_poi returns lies at exactly that distance from
\* outer_disk_center, and so does the handle, which is put on the returned
\* point.
C14_SnapOnRing ==
    LET r == disk_slider.outer_disk_radius
        c == disk_slider.outer_disk_center
    IN /\ r = RDiv(RAdd(ds_args.outer_inner_radius,
                        ds_args.outer_outer_radius), R(2))
       /\ ds_call.op = "get_poi" /\ ds_call.ret.exc = "" =>
             /\ Dist2(ds_call.ret.val, c) = RMul(r, r)
             /\ disk_slider.slider_inner_disk.actor_position = ds_call.ret.val
       /\ Dist2(disk_slider.slider_inner_disk.actor_position, c) = RMul(r, r)

\* a pointer off the ring and off the axes, on a ring of radius 7/2 around
\* (0, 0): (3, 4) is snapped to (21/10, 14/5)
C14_Witness ==
    /\ ds_call.op = "get_poi"
    /\ ds_call.arg = Pt(3, 4)
    /\ disk_slider.outer_disk_center = Pt(0, 0)
    /\ disk_slider.outer_disk_radius = <<7, 2>>
    /\ ds_call.ret = Returns(<< <<21, 10>>, <<14, 5>> >>)

\* the readout of an angle: floor(a / 360 * 100) in two digits, then "%"
TwoDigits(a) ==
    LET q == (a[1] * 100) \div (360 * a[2])
    IN <<DigitChars[(q \div 10) + 1], DigitChars[(q % 10) + 1], "%">>

\* C15: get_angle returns a value in [0, 360), and the readout of an angle a
\* of [0, 360) is floor(a/360*100) written with exactly two digits followed
\* by "%": one of "00%" .. "99%".
C15_Readout ==
    /\ ds_call.op = "get_angle" =>
          /\ RLe(R(0), ds_call.ret.val)
          /\ RLt(ds_call.ret.val, R(360))
          /\ disk_slider.slider_text.message = TwoDigits(ds_call.ret.val)
    /\ ds_call.op = "set_percentage" =>
          disk_slider.slider_text.message = TwoDigits(ds_call.arg)
    /\ Len(disk_slider.slider_text.message) = 3
    /\ \E q \in 0..99 :
          disk_slider.slider_text.message =
              <<DigitChars[(q \div 10) + 1], DigitChars[(q % 10) + 1], "%">>

\* the readout of 18 degrees is padded to "05%"
C15_Witness ==
    /\ ds_call.op = "set_percentage"
    /\ ds_call.arg = R(18)
    /\ disk_slider.slider_text.message = <<"0", "5", "%">>

-----------------------------------------------------------------------------
(* Properties of the router. *)

\* the prop a pick resolves to: the prop of the path's last node, else the 2D
\* overlay actor, else the pathless 3D prop, else None
Resolved(pick) ==
    IF pick.path # None THEN pick.path
    ELSE IF pick.actor_2d # None THEN pick.actor_2d
    ELSE pick.prop_3d

\* the last thing that happened is an event of one of these kinds that
\* reached the router: its handler ran
Delivered(kinds) ==
    /\ rt_event.op = "event"
    /\ rt_event.kind \in kinds
    /\ rt_event.runs > 0

\* C16: a left or right press whose pick resolves to the actor of a tracked 2D
\* widget, with no 3D prop under it, is forwarded to that actor and makes no
\* call on the trackball camera style.
C16_ExclusiveOnHit ==
    /\ Delivered({"LeftButtonPressEvent", "RightButtonPressEvent"})
    /\ Resolved(rt_event.pick) \in Props2D
    /\ get_ui_item(Resolved(rt_event.pick)) # None
    /\ rt_event.pick.prop_3d = None
    => /\ forwarded = <<Resolved(rt_event.pick)>>
       /\ camera = <<>>

\* C17: a press whose pick hits nothing is forwarded to no prop and makes
\* exactly one call on the trackball camera style: OnLeftButtonDown for the
\* left button, OnRightButtonDown for the right, OnMiddleButtonDown for the
\* middle one.
C17_Fallthrough ==
    Delivered(PressKinds) /\ rt_event.pick = NoPick =>
        /\ forwarded = <<>>
        /\ camera =
             << CASE rt_event.kind = "LeftButtonPressEvent" ->
                        "OnLeftButtonDown"
                  [] rt_event.kind = "RightButtonPressEvent" ->
                        "OnRightButtonDown"
                  [] rt_event.kind = "MiddleButtonPressEvent" ->
                        "OnMiddleButtonDown" >>

\* a middle press over nothing pans the camera
C17_Witness ==
    /\ Delivered({"MiddleButtonPressEvent"})
    /\ rt_event.pick = NoPick
    /\ forwarded = <<>>
    /\ camera = <<"OnMiddleButtonDown">>

\* C18: a press is forwarded to at most one prop, and to no other prop than
\* the one its pick resolves to (path first, then 2D overlay actor, then
\* pathless 3D prop); a left or right press is forwarded to that prop whenever
\* there is one.
C18_PickPriority ==
    Delivered(PressKinds) =>
        /\ Len(forwarded) <= 1
        /\ \A n \in 1..Len(forwarded) :
              forwarded[n] = Resolved(rt_event.pick)
        /\ rt_event.kind # "MiddleButtonPressEvent" =>
              forwarded = IF Resolved(rt_event.pick) = None THEN <<>>
                          ELSE <<Resolved(rt_event.pick)>>

\* a left press where the picker has a path, a 2D actor and a 3D prop, all
\* different: only the prop of the path gets the event
C18_Witness ==
    /\ Delivered({"LeftButtonPressEvent"})
    /\ rt_event.pick = [path |-> "follower_actor", actor_2d |-> "button_actor",
                        prop_3d |-> "cube_actor"]
    /\ forwarded = <<"follower_actor">>

\* C19: every press, of the left, the right and the middle button, is
\* forwarded to the prop under the pointer when there is one.
C19_EveryPressPicks ==
    Delivered(PressKinds) /\ Resolved(rt_event.pick) # None =>
        forwarded = <<Resolved(rt_event.pick)>>

\* C20: once SetInteractor has been called, however often, no hook of the
\* trackball style is left on an interactor, every observed kind has exactly
\* one handler on the router, and an event delivered to the router's
\* interactor runs the handler of its kind exactly once.
C20_NoDuplicateDelivery ==
    observers.interactor.style # None =>
        /\ \A i \in Interactors : observers.hooks[i].trackball = 0
        /\ \A k \in StyleKinds : observers.handlers[k] = 1
        /\ /\ rt_event.op = "event"
           /\ rt_event.interactor = observers.interactor.style
           => rt_event.runs = 1

-----------------------------------------------------------------------------
(* More properties of the text box. *)

\* C26: a key that add_character does not reject, with the caret at c, makes
\* the text text[:c] + ch + text[c:] (one character longer) and the caret
\* c + 1; if window_right - window_left = width*height - 1 before the call
\* both window edges grow by 1, otherwise only window_right grows by 1.
C26_InsertStep ==
    [][HandledByAdd(tb_call') /\ ~add_character_rejects(tb_call'.arg) =>
        LET key == tb_call'.arg
            ch == IF lower(key) = STR_space THEN " " ELSE key[1]
        IN  /\ text' = InsertAt(text, caret_pos, ch)
            /\ text' = PyPrefix(text, caret_pos) \o <<ch>>
                          \o PySuffix(text, caret_pos)
            /\ Len(text') = Len(text) + 1
            /\ caret_pos' = caret_pos + 1
            /\ window_right' = window_right + 1
            /\ window_left' = IF window_right - window_left = Capacity
                              THEN window_left + 1 ELSE window_left]_vars

\* a character has been inserted before the end of a text that fills more
\* than the window, which has moved on by one
C26_Witness ==
    /\ HandledByAdd(tb_call)
    /\ ~add_character_rejects(tb_call.arg)
    /\ window_left > 1
    /\ caret_pos < Len(text)
    /\ window_right - window_left = Capacity

\* C27: move_left and move_right move the caret by one step, clamped to
\* [0, len(text)], and never change the text; both window edges move by 1 in
\* the direction of the step exactly when the new caret is window_left - 1
\* (left) or window_right + 1 (right) and the window is exactly full;
\* otherwise the window does not move.
C27_CaretMovement ==
    /\ [][Handled(tb_call', STR_left) =>
            LET slide == /\ caret_pos' = window_left - 1
                         /\ window_right - window_left = Capacity
            IN  /\ text' = text
                /\ caret_pos' = Max(caret_pos - 1, 0)
                /\ window_left' = IF slide THEN window_left - 1
                                  ELSE window_left
                /\ window_right' = IF slide THEN window_right - 1
                                   ELSE window_right]_vars
    /\ [][Handled(tb_call', STR_right) =>
            LET slide == /\ caret_pos' = window_right + 1
                         /\ window_right - window_left = Capacity
            IN  /\ text' = text
                /\ caret_pos' = Min(caret_pos + 1, Len(text))
                /\ window_left' = IF slide THEN window_left + 1
                                  ELSE window_left
                /\ window_right' = IF slide THEN window_right + 1
                                   ELSE window_right]_vars

\* the caret has stepped right onto the right edge of a full window that is
\* scrolled, with text left beyond it
C27_Witness ==
    /\ Handled(tb_call, STR_right)
    /\ window_left > 0
    /\ window_right - window_left = Capacity
    /\ caret_pos = window_right
    /\ caret_pos < Len(text)

\* C28: in edit mode, after every key other than return, the caret is inside
\* the displayed slice, window_left <= caret_pos <= window_right, the string
\* showable_text(True) has the marker "_" at offset caret_pos - window_left
\* and nowhere else, and it is what the label gets; an empty displayed slice
\* is replaced by "Enter Text".
C28_CaretVisible ==
    /\ ~init /\ tb_call.op = "handle_character"
             /\ lower(tb_call.arg) # STR_return =>
          LET shown == showable_text(Box, TRUE)
              at == caret_pos - window_left + 1
          IN  /\ window_left <= caret_pos
              /\ caret_pos <= window_right
              /\ at \in 1..Len(shown)
              /\ \A i \in 1..Len(shown) : shown[i] = "_" <=> i = at
              /\ message = width_set_text(Box, shown)
    /\ ~init /\ Handled(tb_call, STR_return)
             /\ showable_text(Box, FALSE) = <<>> =>
          message = width_set_text(Box, STR_EnterText)

\* a left key has put the caret inside the text of a scrolled window: the
\* marker is shown between two characters
C28_Witness ==
    /\ ~init
    /\ Handled(tb_call, STR_left)
    /\ window_left > 0
    /\ window_left < caret_pos
    /\ caret_pos < window_right
    /\ showable_text(Box, TRUE)[caret_pos - window_left + 1] = "_"

\* the number of lines of a string, and whether each has at most w characters
NumLines(m) == Cardinality({i \in 1..Len(m) : m[i] = "\n"}) + 1
LinesWithin(m, w) ==
    \A i \in 1..(Len(m) - w) : \E j \in i..(i + w) : m[j] = "\n"

\* C29: after edit-mode entry and any sequence of keys, return included, the
\* string render_text gives the label has at most height lines, each of at
\* most width characters.
C29_RenderedSize ==
    ~init => /\ NumLines(message) <= height
             /\ LinesWithin(message, width)

\* C30: after edit-mode entry and any sequence of keys,
\* window_right <= len(text).
C30_WindowInsideBuffer ==
    ~init => window_right <= Len(text)

\* a backspace has shortened a text below the size of the window, and the
\* right edge has come back to the end of the text
C30_Witness ==
    /\ ~init
    /\ Handled(tb_call, STR_backspace)
    /\ Len(text) > 0
    /\ Len(text) < Capacity
    /\ window_right = Len(text)

-----------------------------------------------------------------------------
(* More properties of the router. *)

\* the last event is a left or right press that looked up the owner of a
\* picked actor no widget of ui_list owns
MissedLookup ==
    /\ Delivered({"LeftButtonPressEvent", "RightButtonPressEvent"})
    /\ rt_event.pick.path = None
    /\ Resolved(rt_event.pick) # None
    /\ \A i \in 1..Len(ui_list) :
          ui_list[i].actor # Resolved(rt_event.pick)

\* C21: when no widget of ui_list owns the picked actor, get_ui_item gives
\* None, the press handler completes (the event is forwarded to the actor and
\* the trackball call is made), and the events that follow are dispatched as
\* usual.
C21_MissingOwner ==
    /\ [](MissedLookup =>
            /\ chosen_element = None
            /\ forwarded = <<Resolved(rt_event.pick)>>
            /\ camera = <<TrackballCall(rt_event.kind)>>)
    /\ [][MissedLookup /\ rt_event'.op = "event" /\ rt_event'.runs > 0 =>
            LET kind == rt_event'.kind
                prop == Resolved(rt_event'.pick)
            IN  /\ camera' = IF kind = "KeyPressEvent" THEN <<>>
                             ELSE <<TrackballCall(kind)>>
                /\ forwarded' =
                     IF kind \in {"LeftButtonPressEvent",
                                  "RightButtonPressEvent"} /\ prop # None
                     THEN <<prop>> ELSE <<>>
                /\ chosen_element' =
                     IF /\ kind \in {"LeftButtonPressEvent",
                                     "RightButtonPressEvent"}
                        /\ rt_event'.pick.path = None /\ prop # None
                     THEN get_ui_item(prop) ELSE None]_vars

\* a left press on a 2D actor that no widget owns, after which no element is
\* chosen
C21_Witness ==
    /\ MissedLookup
    /\ rt_event.kind = "LeftButtonPressEvent"
    /\ rt_event.pick = [path |-> None, actor_2d |-> "cursor_actor",
                        prop_3d |-> None]
    /\ chosen_element = None
    /\ forwarded = <<"cursor_actor">>
    /\ camera = <<"OnLeftButtonDown">>

-----------------------------------------------------------------------------
(* More properties of the disk slider. *)

\* C24: no geometry computation raises: get_poi and get_angle return a result
\* for every pointer point, the center of the ring included.
C24_GeometryNeverFails ==
    ds_call.op \in {"get_poi", "get_angle"} => ds_call.ret.exc = ""

-----------------------------------------------------------------------------
(* Properties of the panel. *)

\* the position of the actor of a rectangle of a size that is centered on p
CenteredOn(size, p) ==
    <<RSub(p[1], RDiv(size[1], R(2))), RSub(p[2], RDiv(size[2], R(2)))>>

\* where the widget's own set_center leaves the actor of an element
PlacedAt(el, p) ==
    CASE el.class = "Button2D" -> el.obj.actor_position = p
      [] el.class = "Rectangle2D" ->
            el.obj.actor_position = CenteredOn(el.obj.size, p)
      [] el.class = "LineSlider2D" -> el.obj.slider_disk.actor_position = p

\* C22: add_element(e, (rx, ry)) appends e to the panel's list and calls
\* e.set_center with exactly lower_limits + (rx*size.x, ry*size.y), where
\* lower_limits is center - size/2 of the panel as built; no other element
\* is moved.
C22_PanelPlacement ==
    [][pn_call'.op = "add_element" =>
        LET e == pn_call'.element
            rel == pn_call'.arg
            corner == CenteredOn(panel.size, panel.center)
            position == <<RAdd(corner[1], RMul(rel[1], panel.size[1])),
                          RAdd(corner[2], RMul(rel[2], panel.size[2]))>>
        IN  /\ panel'.ui_list = Append(panel.ui_list, e)
            /\ pn_call'.set_center = position
            /\ PlacedAt(elements'[e], position)
            /\ \A o \in ElementIds \ {e} : elements'[o] = elements[o]
            /\ panel'.panel = panel.panel]_vars

\* a second element has been added, off the corner, to a panel whose
\* background had been moved away
C22_Witness ==
    /\ pn_call.op = "add_element"
    /\ Len(panel.ui_list) = 3
    /\ panel.ui_list[2] # panel.ui_list[3]
    /\ pn_call.arg = <<Frac(1, 4), Frac(3, 4)>>
    /\ panel.panel.actor_position # panel.lower_limits

\* C23: set_center(p) of a panel moves the background rectangle of the panel
\* only: no element added with add_element changes position.
C23_PanelSetCenterFrame ==
    [][pn_call'.op = "set_center" /\ pn_call'.element = "panel" =>
        /\ elements' = elements
        /\ panel'.ui_list = panel.ui_list
        /\ panel'.panel.actor_position =
              CenteredOn(panel.size, pn_call'.arg)]_vars

\* a panel that holds two elements, placed by add_element, has been moved
C23_Witness ==
    /\ pn_call.op = "set_center"
    /\ pn_call.element = "panel"
    /\ Len(panel.ui_list) = 3
    /\ panel.panel.actor_position # panel.lower_limits
    /\ \E e \in ElementIds : elements[e] # NewElements[e]

\* C25: Button2D.set_center(p) puts the actor of the button at exactly p;
\* Rectangle2D.set_center(p) puts the actor of the rectangle at p - size/2.
C25_AnchorAsymmetry ==
    pn_call.op = "set_center" /\ pn_call.element \in ElementIds =>
        LET el == elements[pn_call.element]
            p == pn_call.arg
        IN  /\ el.class = "Button2D" => el.obj.actor_position = p
            /\ el.class = "Rectangle2D" =>
                  el.obj.actor_position =
                      <<RSub(p[1], RDiv(el.obj.size[1], R(2))),
                        RSub(p[2], RDiv(el.obj.size[2], R(2)))>>

\* the button and the rectangle have both been moved to (100, 50): the
\* button's actor is there, the rectangle's actor is at (87.5, 42.5)
C25_Witness ==
    /\ pn_call.op = "set_center"
    /\ pn_call.element = "rectangle"
    /\ pn_call.arg = Pt(100, 50)
    /\ elements["rectangle"].obj.actor_position = <<Frac(175, 2), Frac(85, 2)>>
    /\ elements["button"].obj.actor_position = Pt(100, 50)

-----------------------------------------------------------------------------
(* The scrolled window of the text box. *)

\* C31: after edit-mode entry and any sequence of keys, a window that does not
\* start at the start of the text is exactly full:
\* window_left > 0 implies window_right - window_left = width*height - 1.
C31_ScrolledWindowFull ==
    ~init /\ window_left > 0 => window_right - window_left = Capacity

\* a backspace in a scrolled window has pulled the window back by one; it is
\* still scrolled and still full
C31_Witness ==
    /\ ~init
    /\ Handled(tb_call, STR_backspace)
    /\ window_left > 0
    /\ window_right - window_left = Capacity

-----------------------------------------------------------------------------
(* More properties of the line slider. *)

\* C32: after any sequence of set_center(p) calls, the bounds of the readout,
\* left_x_position and right_x_position, are the bounds the handle is clamped
\* to, p.x - length/2 and p.x + length/2, so that the handle at its leftmost
\* position reports 0% and at its rightmost 100%.
C32_GeometryConsistency ==
    LET d == line_slider.slider_disk
        lo == RSub(d.center[1], RDiv(d.length, R(2)))
        hi == RAdd(d.center[1], RDiv(d.length, R(2)))
    IN /\ line_slider.text.left_x_position = lo
       /\ line_slider.text.right_x_position = hi
       /\ Percentage(lo) = <<R(0), "%">>
       /\ Percentage(hi) = <<R(100), "%">>

\* the slider as LineSlider2D.__init__ built it
AsBuilt ==
    LineSlider2D_init(ls_args.start_point, ls_args.end_point,
                      ls_args.line_width, ls_args.center, ls_args.length)

\* the screen positions of the track, the handle and the label
ScreenPositions(s) ==
    <<s.slider_line.actor_position, s.slider_disk.actor_position,
      s.text.actor_position>>

\* C33: set_center(c), c the center the slider was built with, leaves the
\* track, the handle and the label where construction put them, and
\* set_center(p) called a second time changes no position.
C33_SetCenterConsistent ==
    /\ [](ls_call.op = "set_center" /\ ls_call.arg = ls_args.center =>
            ScreenPositions(line_slider) = ScreenPositions(AsBuilt))
    /\ [][/\ ls_call.op = "set_center"
          /\ ls_call'.op = "set_center"
          /\ ls_call'.arg = ls_call.arg
          => ScreenPositions(line_slider') = ScreenPositions(line_slider)]_vars

\* C34: whatever center, length, start_point and end_point a slider is built
\* with, the percentage shown right after construction is the percentage of
\* the handle's initial position, the center of the track: 50%.
C34_InitialReadout ==
    ls_call.op = "__init__" =>
        /\ line_slider.slider_disk.actor_position[1] = ls_args.center[1]
        /\ line_slider.text.message =
               Percentage(line_slider.slider_disk.actor_position[1])
        /\ line_slider.text.message = <<R(50), "%">>

-----------------------------------------------------------------------------
(* More properties of the button. *)

\* C36: next_icon() keeps the actor and its mapper, leaves the position of
\* the actor and the names and order of the icons as they are, and binds the
\* mapper's input to icons[current_icon_name], where current_icon_name is
\* icon_names[current_icon_id] after the call.
C36_IconSwapFrame ==
    [][bt_call' = "next_icon" =>
        /\ actor' = actor
        /\ actor_position' = actor_position
        /\ icon_names' = icon_names
        /\ current_icon_name' = PyItem(icon_names', current_icon_id')
        /\ current_icon_name' \in {icon_names[i] : i \in 1..Len(icon_names)}
        /\ mapper_input' = [filter_of |-> current_icon_name']]_vars

\* next_icon has wrapped a button of three icons, moved off the origin, back
\* to its first icon, on the actor and mapper build_actor made
C36_Witness ==
    /\ bt_call = "next_icon"
    /\ Len(icon_names) = 3
    /\ current_icon_id = 0
    /\ actor_position = <<100, 50>>
    /\ actor = [id |-> 1, mapper |-> 1]
    /\ mapper_input = [filter_of |-> icon_names[1]]

-----------------------------------------------------------------------------
(* The camera and the buttons. *)

\* some call of the sequence releases a button the trackball style does not
\* hold down when the call is made
RECURSIVE UnmatchedRelease(_, _)
UnmatchedRelease(down, calls) ==
    IF calls = <<>> THEN FALSE
    ELSE \/ \E b \in Buttons :
              /\ Head(calls) = TrackballCall(ReleaseEvent(b))
              /\ b \notin down
         \/ UnmatchedRelease(ApplyCalls(down, <<Head(calls)>>), Tail(calls))

\* C37, as stated: over any sequence of input events, the camera gets a
\* release call only for a button whose press call it got earlier, with no
\* release call in between.
C37_Pairing ==
    [][rt_event'.op = "event" =>
          ~UnmatchedRelease(camera_down, camera')]_vars

\* C37, amended: a press the router handles, whether or not it hits a widget,
\* leaves the button down for the camera; a release event the router handles
\* makes release calls of that button only, at least one, and when the router
\* handled the press of the button last, the camera holds the button down
\* when the first of them is made.
C37_HandledPairing ==
    /\ [](\A b \in Buttons : Delivered({PressEvent(b)}) => b \in camera_down)
    /\ [](router_down \subseteq camera_down)
    /\ [][\A b \in Buttons :
            /\ rt_event'.op = "event"
            /\ rt_event'.kind = ReleaseEvent(b)
            /\ rt_event'.runs > 0
            => /\ camera' # <<>>
               /\ \A n \in 1..Len(camera') :
                     camera'[n] = TrackballCall(ReleaseEvent(b))
               /\ b \notin camera_down'
               /\ b \in router_down => b \in camera_down]_vars

\* the left button has been released after a press that chose the button
\* widget, while the right button is still down
C37_Witness ==
    /\ Delivered({"LeftButtonReleaseEvent"})
    /\ camera = <<"OnLeftButtonUp">>
    /\ chosen_element = "button"
    /\ camera_down = {"Right"}
    /\ router_down = {"Right"}

-----------------------------------------------------------------------------
(* The chosen element. *)

\* the first widget of ui_list whose actor is the prop, None without one
RECURSIVE FirstOwnerFrom(_, _)
FirstOwnerFrom(i, prop) ==
    IF i > Len(ui_list) THEN None
    ELSE IF ui_list[i].actor = prop THEN ui_list[i].name
    ELSE FirstOwnerFrom(i + 1, prop)

\* C38: chosen_element is None at first; a left or right press that picks a
\* pathless 2D actor or 3D prop makes it the first widget of ui_list whose
\* actor is the picked one, None if there is none; a press that hits nothing,
\* a press resolved through a path and every event that is not a press leave
\* it as it is.
C38_ChosenElement ==
    /\ [](rt_event.op # "event" => chosen_element = None)
    /\ [][rt_event'.op = "event" =>
            LET kind == rt_event'.kind
                pick == rt_event'.pick
            IN  /\ /\ kind \in {"LeftButtonPressEvent", "RightButtonPressEvent"}
                   /\ rt_event'.runs > 0
                   /\ pick.path = None
                   /\ Resolved(pick) # None
                   => chosen_element' = FirstOwnerFrom(1, Resolved(pick))
                /\ \/ kind \notin PressKinds
                   \/ pick = NoPick
                   \/ pick.path # None
                   => chosen_element' = chosen_element]_vars

\* a right press has picked the actor that two widgets of ui_list share, and
\* the first of them is chosen
C38_Witness ==
    /\ Delivered({"RightButtonPressEvent"})
    /\ rt_event.pick.path = None
    /\ rt_event.pick.actor_2d = "button_actor"
    /\ chosen_element = "button"

(* ------------------------------------------------------------------ *)
(* The panel and the renderer                                          *)
(* ------------------------------------------------------------------ *)

\* the number of times x occurs in a sequence
Occurrences(seq, x) == Cardinality({i \in DOMAIN seq : seq[i] = x})

\* the sub-widgets of a child: a slider has a track, a handle and a label,
\* a leaf widget has itself
SubWidgets(e) ==
    IF elements[e].class = "LineSlider2D"
    THEN {"slider_line", "slider_disk", "text"}
    ELSE {"self"}

\* C35: when add_to_renderer has run on a renderer that held nothing, the
\* renderer holds the actor of the background once, the actor of every
\* sub-widget of a child once for each add_element call that added the child,
\* and nothing else.
C35_RenderRegistration ==
    pn_call.op = "add_to_renderer" =>
        /\ Occurrences(renderer, <<"panel", "self">>) = 1
        /\ \A e \in ElementIds :
              \A part \in {"self", "slider_line", "slider_disk", "text"} :
                  Occurrences(renderer, <<e, part>>) =
                      IF part \in SubWidgets(e)
                      THEN Occurrences(panel.ui_list, e)
                      ELSE 0
        /\ \A i \in DOMAIN renderer :
              renderer[i][1] \in ElementIds \cup {"panel"}

\* a panel with a slider and one more child has been added to the renderer
C35_Witness ==
    /\ pn_call.op = "add_to_renderer"
    /\ Occurrences(panel.ui_list, "slider") >= 1
    /\ Len(panel.ui_list) = 3
    /\ Len(renderer) >= 5

====
